---- MODULE Spec2Model ----
(***************************************************************************)
(* Rule of Thirds: the orchestrator (src/src/orchestrator.ts) that runs    *)
(* the External, Internal and Product collectors in parallel behind a      *)
(* retry-with-timeout wrapper, and the collectors' rank-and-truncate       *)
(* pipeline (src/web/src/App.tsx, src/src/agents/*.ts).                    *)
(*                                                                         *)
(* Scores are kept as integers: relevanceScore and recencyScore in         *)
(* hundredths (0..100), combinedScore of an External signal in thousandths *)
(* (0.7 * rel + 0.3 * rec  ==  7 * rel + 3 * rec), combinedScore of an     *)
(* Internal finding in hundredths.                                         *)
(*                                                                         *)
(* JavaScript objects are records; a property an object does not have is   *)
(* a field outside the record's DOMAIN.  The field "by" of a collector     *)
(* result is a ghost: the number of the runWithRetry attempt whose call    *)
(* produced the object (the code's objects differ by their timestamp).     *)
(***************************************************************************)
EXTENDS Integers, Sequences, FiniteSets, TLC

VARIABLES
    retries,     \* orchestrator this.config.retries
    topic,       \* the topic orchestrate() received (a sequence of characters)
    caller,      \* who called orchestrate: "direct", "mcp", "http"
    pc,          \* position of the orchestrate call
    rw,          \* per collector: state of its runWithRetry call
    attempt,     \* per collector: runWithRetry's loop variable
    pending,     \* per collector: timed-out attempts whose agentFn call still runs
    lastError,   \* per collector: runWithRetry's lastError message (<<>> = undefined)
    settled,     \* per collector: the PromiseSettledResult of its runWithRetry call
    invoked,     \* per collector: number of agentFn() invocations (ghost)
    work,        \* orchestrate's locals after the join: slots and metadata
    report,      \* what the caller got back
    aPc,         \* a single collector call on its own: position
    aKind,       \* ... which collector
    aMax,        \* ... its this.config.maxResults
    aItems,      \* ... the items its sub-sources produced, in declaration order
    aFault,      \* ... the message of the fault thrown inside its try block (<<>> = none)
    aOutcome,    \* ... how the call settled
    llm,         \* orchestrator: config.enableLlmSynthesis and the azureOpenAI client
    sPc,         \* a collector call seen sub-source by sub-source: position
    sKind,       \* ... which collector
    sCfg,        \* ... its credentials and configuration, and the call's arguments
    sEnv,        \* ... what each sub-source's provider did (ghost)
    sSources,    \* ... signals.sources / dataSources / discovered files so far
    sResult,     \* ... what the call resolved to
    fn,          \* a pure function applied on its own: which one
    fnArgs,      \* ... its arguments
    fnResult,    \* ... what the call did
    waited,      \* per collector: the backoff delays runWithRetry has awaited, in ms (ghost)
    settleOrder, \* the join on its own: the collectors in the order their promises settled (ghost)
    contentCache,\* InternalResearchAgent.contentCache: cache key -> extracted content
    fileSystem,  \* per research file: its modification time
    extraction   \* what the last extractFileContent call did (ghost)

orchVars == <<retries, topic, caller, pc, rw, attempt, pending, lastError, settled,
              invoked, work, report, llm, waited, settleOrder>>
agentVars == <<aPc, aKind, aMax, aItems, aFault, aOutcome>>
sourceVars == <<sPc, sKind, sCfg, sEnv, sSources, sResult>>
pureVars == <<fn, fnArgs, fnResult>>
cacheVars == <<contentCache, fileSystem, extraction>>
vars == <<retries, topic, caller, pc, rw, attempt, pending, lastError, settled,
          invoked, work, report, aPc, aKind, aMax, aItems, aFault, aOutcome,
          llm, sPc, sKind, sCfg, sEnv, sSources, sResult, fn, fnArgs, fnResult,
          waited, settleOrder, contentCache, fileSystem, extraction>>

\* what no step of orchestrate changes, and what no step of a collector call changes
outsideOrchestrate == <<llm, settleOrder, agentVars, sourceVars, pureVars, cacheVars>>
outsideCollector == <<orchVars, sourceVars, pureVars, cacheVars>>
outsideSources == <<orchVars, agentVars, pureVars, cacheVars>>
outsidePure == <<orchVars, agentVars, sourceVars, cacheVars>>
outsideCache == <<orchVars, agentVars, sourceVars, pureVars>>

-----------------------------------------------------------------------------
(* Bounds of the model *)

\* largest config.retries explored (validateConfig admits 0..10)
MaxRetries == 2
\* most items the sub-sources of one collector call produce
MaxItems == 3
\* largest explicitly configured maxResults explored
MaxConfiguredResults == 2

(* Program constants *)

DefaultRetries == 2
ExternalDefaultMaxResults == 20
InternalDefaultMaxResults == 50

Collectors == {"external", "internal", "product"}

Min(a, b) == IF a < b THEN a ELSE b
Max(a, b) == IF a > b THEN a ELSE b

Has(r, f) == f \in DOMAIN r

\* JavaScript's  r.f || 0  for a numeric property
OrZero(r, f) == IF Has(r, f) THEN r[f] ELSE 0

\* Array.prototype.slice(0, end)
Slice(s, end) ==
    LET e == IF end < 0 THEN Max(Len(s) + end, 0) ELSE Min(end, Len(s))
    IN  SubSeq(s, 1, e)

\* Math.round(n / d): the nearest integer, a half going up
RoundDiv(n, d) ==
    IF d > 0 THEN (2 * n + d) \div (2 * d) ELSE (2 * (0 - n) + (0 - d)) \div (2 * (0 - d))

\* { ...r, f: v }
Spread(r, f, v) == [g \in DOMAIN r \cup {f} |-> IF g = f THEN v ELSE r[g]]

\* { key: config.key || dflt, ...config }: the spread puts an own property of
\* config back over the defaulted one; cfg is <<>> (no such property) or <<n>>
Configured(cfg, dflt) == IF cfg = <<>> THEN dflt ELSE cfg[1]

-----------------------------------------------------------------------------
(* String.prototype.trim on sequences of characters *)

WhiteSpace == {" ", "\t", "\n"}

RECURSIVE TrimStart(_)
TrimStart(s) ==
    IF s # <<>> /\ Head(s) \in WhiteSpace THEN TrimStart(Tail(s)) ELSE s

RECURSIVE TrimEnd(_)
TrimEnd(s) ==
    IF s # <<>> /\ s[Len(s)] \in WhiteSpace THEN TrimEnd(SubSeq(s, 1, Len(s) - 1)) ELSE s

Trim(s) == TrimEnd(TrimStart(s))

-----------------------------------------------------------------------------
(* JavaScript strings as sequences of one-character strings *)

UpperCase == <<"A", "B", "C", "D", "E", "F", "G", "H", "I", "J", "K", "L", "M",
               "N", "O", "P", "Q", "R", "S", "T", "U", "V", "W", "X", "Y", "Z">>
LowerCase == <<"a", "b", "c", "d", "e", "f", "g", "h", "i", "j", "k", "l", "m",
               "n", "o", "p", "q", "r", "s", "t", "u", "v", "w", "x", "y", "z">>
Digits == {"0", "1", "2", "3", "4", "5", "6", "7", "8", "9"}

LowerChar(ch) ==
    IF \E i \in 1..Len(UpperCase) : UpperCase[i] = ch
    THEN LowerCase[CHOOSE i \in 1..Len(UpperCase) : UpperCase[i] = ch]
    ELSE ch

\* String.prototype.toLowerCase
ToLowerCase(s) == [i \in 1..Len(s) |-> LowerChar(s[i])]

\* does sub occur in s at offset i (0-based)
OccursAt(s, sub, i) ==
    /\ i >= 0
    /\ i + Len(sub) <= Len(s)
    /\ SubSeq(s, i + 1, i + Len(sub)) = sub

\* String.prototype.includes
Includes(s, sub) == \E i \in 0..Len(s) : OccursAt(s, sub, i)

\* String.prototype.split(sep) for a one-character separator: "" gives [""]
RECURSIVE SplitOn(_, _)
SplitOn(s, sep) ==
    IF \E i \in 1..Len(s) : s[i] = sep
    THEN LET i == CHOOSE k \in 1..Len(s) : s[k] = sep /\ \A j \in 1..(k - 1) : s[j] # sep
         IN  <<SubSeq(s, 1, i - 1)>> \o SplitOn(SubSeq(s, i + 1, Len(s)), sep)
    ELSE <<s>>

\* the characters of /[.!?]/
SentenceEnd == {".", "!", "?"}

\* String.prototype.split(/[.!?]+/): a run of terminators is one separator
RECURSIVE SplitSentences(_)
SplitSentences(s) ==
    IF \E i \in 1..Len(s) : s[i] \in SentenceEnd
    THEN LET i == CHOOSE k \in 1..Len(s) :
                      s[k] \in SentenceEnd /\ \A j \in 1..(k - 1) : s[j] \notin SentenceEnd
             j == CHOOSE k \in i..Len(s) :
                      /\ \A m \in i..k : s[m] \in SentenceEnd
                      /\ (k = Len(s) \/ s[k + 1] \notin SentenceEnd)
         IN  <<SubSeq(s, 1, i - 1)>> \o SplitSentences(SubSeq(s, j + 1, Len(s)))
    ELSE <<s>>

\* Array.prototype.flatMap / flat over a sequence of sequences
RECURSIVE Flatten(_)
Flatten(ss) == IF ss = <<>> THEN <<>> ELSE Head(ss) \o Flatten(Tail(ss))

\* sum of a sequence of numbers
RECURSIVE SumSeq(_)
SumSeq(s) == IF s = <<>> THEN 0 ELSE Head(s) + SumSeq(Tail(s))

-----------------------------------------------------------------------------
(* new RegExp(source): which sources compile, and how often a literal matches *)

\* the regular-expression syntax characters the inputs may hold
RegexSpecial == {"(", ")", "[", "]", "*", "+"}

\* /\w/
IsWordChar(ch) ==
    \/ \E i \in 1..Len(LowerCase) : LowerCase[i] = ch \/ UpperCase[i] = ch
    \/ ch \in Digits
    \/ ch = "_"

\* the parse of a pattern source from position i on: depth counts the groups
\* open, atom says whether a quantifier may follow.  TRUE when the source is a
\* SyntaxError (unterminated group or class, unmatched ')', nothing to repeat)
RECURSIVE RegExpSyntaxError(_, _, _, _)
RegExpSyntaxError(src, i, depth, atom) ==
    IF i > Len(src) THEN depth > 0
    ELSE LET ch == src[i] IN
         IF ch = "(" THEN RegExpSyntaxError(src, i + 1, depth + 1, FALSE)
         ELSE IF ch = ")"
         THEN depth = 0 \/ RegExpSyntaxError(src, i + 1, depth - 1, TRUE)
         ELSE IF ch = "["
         THEN IF \E k \in (i + 1)..Len(src) : src[k] = "]"
              THEN RegExpSyntaxError(src,
                       (CHOOSE k \in (i + 1)..Len(src) :
                            src[k] = "]" /\ \A j \in (i + 1)..(k - 1) : src[j] # "]") + 1,
                       depth, TRUE)
              ELSE TRUE
         ELSE IF ch \in {"*", "+"}
         THEN ~atom \/ RegExpSyntaxError(src, i + 1, depth, FALSE)
         ELSE RegExpSyntaxError(src, i + 1, depth, TRUE)

\* new RegExp(source) and new RegExp(`\b${source}\b`) throw: a quantifier can
\* follow neither the start of the source nor the assertion \b
RegExpThrows(source) == RegExpSyntaxError(source, 1, 0, FALSE)

\* a source without syntax characters matches itself
IsLiteral(source) == \A i \in 1..Len(source) : source[i] \notin RegexSpecial

\* /\b/ holds between positions p and p + 1 of s (0 <= p <= Len(s))
WordBoundary(s, p) ==
    LET before == p >= 1 /\ IsWordChar(s[p])
        after == p + 1 <= Len(s) /\ IsWordChar(s[p + 1])
    IN  before # after

\* one match of the literal at offset i, with the \b assertions if asked for
MatchesAt(s, literal, wordBounded, i) ==
    /\ OccursAt(s, literal, i)
    /\ wordBounded => WordBoundary(s, i) /\ WordBoundary(s, i + Len(literal))

\* (s.match(new RegExp(source, 'g')) || []).length for a literal source:
\* matches are found left to right and do not overlap; an empty match moves
\* lastIndex on by one
RECURSIVE MatchCountFrom(_, _, _, _)
MatchCountFrom(s, literal, wordBounded, i) ==
    IF \E k \in i..Len(s) : MatchesAt(s, literal, wordBounded, k)
    THEN LET k == CHOOSE m \in i..Len(s) :
                      /\ MatchesAt(s, literal, wordBounded, m)
                      /\ \A j \in i..(m - 1) : ~MatchesAt(s, literal, wordBounded, j)
         IN  1 + MatchCountFrom(s, literal, wordBounded,
                                IF literal = <<>> THEN k + 1 ELSE k + Len(literal))
    ELSE 0

MatchCount(s, literal, wordBounded) == MatchCountFrom(s, literal, wordBounded, 0)

-----------------------------------------------------------------------------
(* The relevance scorers; scores in hundredths *)

\* what a scorer call did: it returned a number or threw
Returned(n) == [threw |-> FALSE, value |-> n]
Threw(name) == [threw |-> TRUE, error |-> name]

\* keywords.forEach(k => score += matches of new RegExp(`\b${k}\b`) * 0.1)
KeywordScore(content, keywords) ==
    SumSeq([i \in 1..Len(keywords) |-> 10 * MatchCount(content, keywords[i], TRUE)])

AnyKeywordThrows(keywords) == \E i \in 1..Len(keywords) : RegExpThrows(keywords[i])

\* ExternalSignalsAgent.calculateRelevance; productArea <<>> is null or ''
CalculateRelevanceUncapped(content, t, productArea) ==
    LET normalizedContent == ToLowerCase(content)
        normalizedTopic == ToLowerCase(t)
        normalizedProductArea == ToLowerCase(productArea)
        topicWords == SplitOn(normalizedTopic, " ")
        productWords == IF normalizedProductArea # <<>>
                        THEN SplitOn(normalizedProductArea, " ") ELSE <<>>
        allKeywords == topicWords \o productWords
    IN  IF content = <<>> THEN Returned(0)
        ELSE IF AnyKeywordThrows(allKeywords) THEN Threw("SyntaxError")
        ELSE Returned(
              (IF Includes(normalizedContent, normalizedTopic) THEN 50 ELSE 0)
            + (IF normalizedProductArea # <<>>
                  /\ Includes(normalizedContent, normalizedProductArea) THEN 30 ELSE 0)
            + KeywordScore(normalizedContent, allKeywords))

CalculateRelevance(content, t, productArea) ==
    LET r == CalculateRelevanceUncapped(content, t, productArea)
    IN  IF r.threw THEN r ELSE Returned(Min(r.value, 100))

Interview == <<"i", "n", "t", "e", "r", "v", "i", "e", "w">>
Research == <<"r", "e", "s", "e", "a", "r", "c", "h">>

\* InternalResearchAgent.calculateContentRelevance
CalculateContentRelevance(content, t, productArea) ==
    LET normalizedContent == ToLowerCase(content)
        normalizedTopic == ToLowerCase(t)
        normalizedProductArea == ToLowerCase(productArea)
        topicWords == SplitOn(normalizedTopic, " ")
    IN  IF RegExpThrows(normalizedTopic) THEN Threw("SyntaxError")
        ELSE IF normalizedProductArea # <<>> /\ RegExpThrows(normalizedProductArea)
        THEN Threw("SyntaxError")
        ELSE IF AnyKeywordThrows(topicWords) THEN Threw("SyntaxError")
        ELSE Returned(Min(
              30 * MatchCount(normalizedContent, normalizedTopic, FALSE)
            + (IF normalizedProductArea # <<>>
               THEN 20 * MatchCount(normalizedContent, normalizedProductArea, FALSE)
               ELSE 0)
            + KeywordScore(normalizedContent, topicWords)
            + (IF Len(content) > 1000 THEN 10 ELSE 0)
            + (IF Includes(content, Interview) \/ Includes(content, Research)
               THEN 10 ELSE 0),
            100))

\* InternalResearchAgent.isRelevantContent
IsRelevantContent(content, t, productArea) ==
    LET normalizedContent == ToLowerCase(content)
        normalizedTopic == ToLowerCase(t)
        normalizedProductArea == ToLowerCase(productArea)
        topicKeywords == SplitOn(normalizedTopic, " ")
    IN  /\ Len(content) >= 100
        /\ \/ Includes(normalizedContent, normalizedTopic)
           \/ normalizedProductArea # <<>>
              /\ Includes(normalizedContent, normalizedProductArea)
           \/ \E i \in 1..Len(topicKeywords) :
                  Includes(normalizedContent, topicKeywords[i])

-----------------------------------------------------------------------------
(* External collector: ranking (src/web/src/App.tsx) *)

\* publishedAt as the item's age in whole days; AbsentDate = no publishedAt
AbsentDate == -1

RecencyScore(age) ==
    IF age = AbsentDate THEN 0
    ELSE IF age <= 1 THEN 100
    ELSE IF age <= 7 THEN 80
    ELSE IF age <= 30 THEN 60
    ELSE 30

\* relevanceWeight 0.7, recencyWeight 0.3, in tenths
CalculateCombinedScore(signal) ==
    OrZero(signal, "relevanceScore") * 7 + RecencyScore(signal.age) * 3

\* the comparator (a, b) => b.combinedScore - a.combinedScore
CompareSignalsAscending(a, b) == a.combinedScore - b.combinedScore
CompareSignals(a, b) == b.combinedScore - a.combinedScore

\* Array.prototype.sort is stable: x goes behind every element the comparator
\* does not put after it
RECURSIVE InsertSignal(_, _)
InsertSignal(x, s) ==
    IF s = <<>> THEN <<x>>
    ELSE IF CompareSignals(Head(s), x) <= 0
         THEN <<Head(s)>> \o InsertSignal(x, Tail(s))
         ELSE <<x>> \o s

RECURSIVE SortSignals(_)
SortSignals(s) ==
    IF s = <<>> THEN <<>>
    ELSE InsertSignal(s[Len(s)], SortSignals(SubSeq(s, 1, Len(s) - 1)))

\* signals.map(signal => ({ ...signal, combinedScore })).sort(...)
RankSignalsByRelevance(signals) ==
    SortSignals([i \in 1..Len(signals) |->
        Spread(signals[i], "combinedScore", CalculateCombinedScore(signals[i]))])

\* the object gatherSignals returns from its try block
GatherSignalsUntruncated(rankedSignals, maxResults, by) ==
    [status |-> "success",
     signalCount |-> Len(rankedSignals),
     rankedSignals |-> rankedSignals,
     by |-> by]
GatherSignalsReturn(rankedSignals, maxResults, by) ==
    [status |-> "success",
     signalCount |-> Len(rankedSignals),
     rankedSignals |-> Slice(rankedSignals, maxResults),
     by |-> by]

\* a gatherSignals whose catch block throws the fault on
ExternalRethrow(message, by) == [settle |-> "rejected", reason |-> message]
\* the catch block of gatherSignals: the fault becomes a result object
ExternalCatch(message, by) ==
    [settle |-> "resolved",
     value |-> [status |-> "failed", error |-> message, signalCount |-> 0, by |-> by]]

GatherSignals(items, maxResults, fault, by) ==
    IF fault # <<>> THEN ExternalCatch(fault, by)
    ELSE [settle |-> "resolved",
          value |-> GatherSignalsReturn(RankSignalsByRelevance(items), maxResults, by)]

-----------------------------------------------------------------------------
(* Internal collector: ranking (src/src/agents/internalResearchAgent.ts) *)

CalculateFindingScore(finding) ==
    LET base == OrZero(finding, "relevanceScore")
        len == finding.contentLength
        s1 == base + (IF len > 200 THEN 20 ELSE 0) + (IF len > 500 THEN 20 ELSE 0)
        s2 == s1 + (IF finding.fileType = ".md" THEN 10 ELSE 0)
                 + (IF finding.fileType = ".vtt" THEN 15 ELSE 0)
    IN  Min(s2, 100)

CompareFindings(a, b) == b.combinedScore - a.combinedScore

RECURSIVE InsertFinding(_, _)
InsertFinding(x, s) ==
    IF s = <<>> THEN <<x>>
    ELSE IF CompareFindings(Head(s), x) <= 0
         THEN <<Head(s)>> \o InsertFinding(x, Tail(s))
         ELSE <<x>> \o s

RECURSIVE SortFindings(_)
SortFindings(s) ==
    IF s = <<>> THEN <<>>
    ELSE InsertFinding(s[Len(s)], SortFindings(SubSeq(s, 1, Len(s) - 1)))

\* findings.map(finding => ({ ...finding, combinedScore })).sort(...)
RankFindings(findings) ==
    SortFindings([i \in 1..Len(findings) |->
        Spread(findings[i], "combinedScore", CalculateFindingScore(findings[i]))])

\* the object analyzeResearch returns from its try block
AnalyzeResearchReturn(rankedFindings, maxResults, by) ==
    [status |-> "success",
     findingCount |-> Len(rankedFindings),
     rankedFindings |-> Slice(rankedFindings, maxResults),
     by |-> by]

\* the catch block of analyzeResearch
InternalRethrow(message, by) == [settle |-> "rejected", reason |-> message]
InternalCatch(message, by) ==
    [settle |-> "resolved",
     value |-> [status |-> "failed", error |-> message, findingCount |-> 0, by |-> by]]

AnalyzeResearch(items, maxResults, fault, by) ==
    IF fault # <<>> THEN InternalCatch(fault, by)
    ELSE [settle |-> "resolved",
          value |-> AnalyzeResearchReturn(RankFindings(items), maxResults, by)]

-----------------------------------------------------------------------------
(* Product collector (src/src/agents/productMetricsAgent.ts) *)

\* aggregateMetrics: totalDataPoints sums source.dataPoints || 0 over the
\* data sources whose status is 'success'
RECURSIVE TotalDataPoints(_)
TotalDataPoints(dataSources) ==
    IF dataSources = <<>> THEN 0
    ELSE (IF Head(dataSources).status = "success"
          THEN OrZero(Head(dataSources), "dataPoints") ELSE 0)
         + TotalDataPoints(Tail(dataSources))

CollectMetricsReturn(dataSources, by) ==
    [status |-> "success",
     dataPointCount |-> TotalDataPoints(dataSources),
     dataSources |-> dataSources,
     by |-> by]

\* the catch block of collectMetrics
ProductCatch(message, by) ==
    [settle |-> "resolved",
     value |-> [status |-> "failed", error |-> message, dataPointCount |-> 0, by |-> by]]

CollectMetrics(items, fault, by) ==
    IF fault # <<>> THEN ProductCatch(fault, by)
    ELSE [settle |-> "resolved", value |-> CollectMetricsReturn(items, by)]

-----------------------------------------------------------------------------
(* The three collectors behind one name *)

RunCollector(c, items, maxResults, fault, by) ==
    IF c = "external" THEN GatherSignals(items, maxResults, fault, by)
    ELSE IF c = "internal" THEN AnalyzeResearch(items, maxResults, fault, by)
    ELSE CollectMetrics(items, fault, by)

\* the property that carries a collector's item count, and its ranked list
CountField(c) ==
    IF c = "external" THEN "signalCount"
    ELSE IF c = "internal" THEN "findingCount" ELSE "dataPointCount"

RankedField(c) == IF c = "external" THEN "rankedSignals" ELSE "rankedFindings"

DefaultMaxResults(c) ==
    IF c = "external" THEN ExternalDefaultMaxResults
    ELSE IF c = "internal" THEN InternalDefaultMaxResults ELSE 0

-----------------------------------------------------------------------------
(* What the environment can hand a collector call *)

NoFault == <<>>
CollectorFault == <<"collector fault">>

\* generateSimulatedNewsData, generateSimulatedYouTubeData, a feed item
\* without a date, a video of last week and a feed item of last month
ExternalSamples ==
    { [type |-> "news_article", relevanceScore |-> 85, age |-> 2],
      [type |-> "news_article", relevanceScore |-> 78, age |-> 1],
      [type |-> "youtube_video", relevanceScore |-> 88, age |-> 5],
      [type |-> "rss_article", relevanceScore |-> 50, age |-> AbsentDate],
      [type |-> "youtube_video", relevanceScore |-> 100, age |-> 10],
      [type |-> "rss_article", relevanceScore |-> 0, age |-> 40] }

InternalSamples ==
    { [type |-> "textual_evidence", relevanceScore |-> 30, contentLength |-> 60,
       fileType |-> ".md"],
      [type |-> "textual_evidence", relevanceScore |-> 100, contentLength |-> 250,
       fileType |-> ".vtt"],
      [type |-> "textual_evidence", relevanceScore |-> 50, contentLength |-> 600,
       fileType |-> ".txt"],
      [type |-> "textual_evidence", relevanceScore |-> 0, contentLength |-> 60,
       fileType |-> ".txt"] }

\* seven days of two metrics, a failed category, a custom endpoint
ProductSamples ==
    { [type |-> "usage_metrics", status |-> "success", dataPoints |-> 14],
      [type |-> "performance_metrics", status |-> "failed", dataPoints |-> 0],
      [type |-> "custom_metrics", status |-> "success", dataPoints |-> 3] }

Samples(c) ==
    IF c = "external" THEN ExternalSamples
    ELSE IF c = "internal" THEN InternalSamples ELSE ProductSamples

\* what one collector call meets when the orchestrator runs it
OrchItems(c) ==
    IF c = "external"
    THEN << [type |-> "news_article", relevanceScore |-> 85, age |-> 2],
            [type |-> "news_article", relevanceScore |-> 78, age |-> 1],
            [type |-> "news_article", relevanceScore |-> 72, age |-> 3] >>
    ELSE IF c = "internal"
    THEN << [type |-> "textual_evidence", relevanceScore |-> 30, contentLength |-> 60,
             fileType |-> ".md"],
            [type |-> "textual_evidence", relevanceScore |-> 50, contentLength |-> 600,
             fileType |-> ".txt"] >>
    ELSE << [type |-> "usage_metrics", status |-> "success", dataPoints |-> 14] >>

Envs(c) ==
    { [fault |-> CollectorFault, items |-> <<>>],
      [fault |-> NoFault, items |-> <<>>],
      [fault |-> NoFault, items |-> OrchItems(c)] }

-----------------------------------------------------------------------------
(* One collector call on its own *)

MaxResultsConfigs == {<<>>} \cup {<<n>> : n \in 0..MaxConfiguredResults}

AgentIdle ==
    /\ aPc = "idle"
    /\ aKind = "none"
    /\ aMax = 0
    /\ aItems = <<>>
    /\ aFault = NoFault
    /\ aOutcome = [settle |-> "pending"]

\* new ExternalSignalsAgent(config).gatherSignals(...), and the like
CollectorInvoke(c, cfg) ==
    /\ aPc = "idle"
    /\ aKind' = c
    /\ aMax' = Configured(cfg, DefaultMaxResults(c))
    /\ aPc' = "gathering"
    /\ UNCHANGED <<aItems, aFault, aOutcome>>
    /\ UNCHANGED outsideCollector

\* a sub-source delivers one more item
SubSourceYields(item) ==
    /\ aPc = "gathering"
    /\ Len(aItems) < MaxItems
    /\ item \in Samples(aKind)
    /\ aItems' = Append(aItems, item)
    /\ UNCHANGED <<aPc, aKind, aMax, aFault, aOutcome>>
    /\ UNCHANGED outsideCollector

\* something inside the try block throws
CollectorThrows ==
    /\ aPc = "gathering"
    /\ aFault' = CollectorFault
    /\ aOutcome' = RunCollector(aKind, aItems, aMax, CollectorFault, 1)
    /\ aPc' = "returned"
    /\ UNCHANGED <<aKind, aMax, aItems>>
    /\ UNCHANGED outsideCollector

\* the try block runs to its return statement
CollectorReturns ==
    /\ aPc = "gathering"
    /\ aOutcome' = RunCollector(aKind, aItems, aMax, NoFault, 1)
    /\ aPc' = "returned"
    /\ UNCHANGED <<aKind, aMax, aItems, aFault>>
    /\ UNCHANGED outsideCollector

-----------------------------------------------------------------------------
(* The orchestrator (src/src/orchestrator.ts) *)

Topics == { <<" ">>, <<" ", "a">> }

RetriesConfigs == {<<>>} \cup {<<n>> : n \in 0..MaxRetries}

TimeoutMessage == <<"Agent timeout">>
TypeErrorMessage == <<"Cannot read properties of undefined (reading 'message')">>
MkdirMessage == <<"EACCES: permission denied, mkdir">>
WriteFileMessage == <<"ENOSPC: no space left on device, write">>
TopicRequiredMessage == <<"Topic is required and must be a non-empty string">>

\* `${agentName} agent failed after ${retries} attempts: ${lastError.message}`
ExhaustedMessage(c, n, last) == <<c, "agent failed after", n, "attempts:", last[1]>>

\* the throw statement that ends runWithRetry; lastError is undefined (<<>>)
\* when the loop body never ran
RunWithRetryThrow(c, n, last) ==
    IF last = <<>> THEN TypeErrorMessage ELSE ExhaustedMessage(c, n, last)

\* for (let attempt = 1; attempt <= this.config.retries; attempt++)
LoopContinuesOnceMore(k, n) == k <= n + 1
LoopContinues(k, n) == k <= n

\* if (attempt < this.config.retries) await backoff
BackoffBeforeRetry(k, n) == k < n

\* const backoffTime = Math.pow(2, attempt) * 1000, from the first attempt's
\* number 0 and from its number 1
BackoffTimeFromZero(k) == 2 ^ (k - 1) * 1000
BackoffTime(k) == 2 ^ k * 1000

\* Promise.race: the promise settles with the first outcome; what arrives
\* after the race is over changes nothing
PromiseRaceLastWins(raceOver, current, incoming) == incoming
PromiseRace(raceOver, current, incoming) == IF raceOver THEN current ELSE incoming

\* a join that resolves once every input is fulfilled
PromiseAllFulfilled(results) ==
    [done |-> \A c \in Collectors : results[c].status = "fulfilled",
     rejected |-> FALSE,
     reason |-> "none"]
\* Promise.allSettled: resolves once no input is pending, and never rejects
PromiseAnySettled(results) ==
    [done |-> \E c \in Collectors : results[c].status # "pending",
     rejected |-> FALSE,
     reason |-> "none"]
PromiseAll(results) ==
    [done |-> \/ \A c \in Collectors : results[c].status = "fulfilled"
              \/ \E c \in Collectors : results[c].status = "rejected",
     rejected |-> \E c \in Collectors : results[c].status = "rejected",
     reason |-> IF \E c \in Collectors : results[c].status = "rejected"
                THEN (CHOOSE c \in Collectors : results[c].status = "rejected")
                ELSE "none"]
PromiseAllSettled(results) ==
    [done |-> \A c \in Collectors : results[c].status # "pending",
     rejected |-> FALSE,
     reason |-> "none"]

SuccessfulAgents(results) ==
    Cardinality({c \in Collectors : results[c].status = "fulfilled"})

AgentStatus(results) == [c \in Collectors |-> results[c].status = "fulfilled"]

\* the slot of a collector: its value, or the fallback object with
\* reason?.message (<<>> = undefined)
SlotData(result) ==
    IF result.status = "fulfilled" THEN result.value
    ELSE [status |-> "failed",
          error |-> IF Has(result, "reason") THEN result.reason ELSE <<>>,
          signalCount |-> 0,
          data |-> <<>>]

TotalSignals(data) ==
    OrZero(data.external, "signalCount") + OrZero(data.internal, "signalCount")
        + OrZero(data.product, "signalCount")

\* config.enableLlmSynthesis and whether the constructor built this.azureOpenAI
LlmConfigs == [enabled : BOOLEAN, client : BOOLEAN]

\* enableLlmSynthesis defaults to true; without the three Azure settings the
\* constructor leaves azureOpenAI null
DefaultLlm == [enabled |-> TRUE, client |-> FALSE]

\* no sub-source-level collector call has been made
SourcesIdle ==
    /\ sPc = "idle"
    /\ sKind = "none"
    /\ sCfg = [configured |-> FALSE]
    /\ sEnv = [none |-> TRUE]
    /\ sSources = <<>>
    /\ sResult = [returned |-> FALSE]

\* a new InternalResearchAgent: this.contentCache = new Map()
CacheIdle ==
    /\ contentCache = [key \in {} |-> <<>>]
    /\ fileSystem = [path \in {} |-> 0]
    /\ extraction = [called |-> FALSE]

\* no pure function has been applied
PureIdle ==
    /\ fn = "none"
    /\ fnArgs = [given |-> FALSE]
    /\ fnResult = [called |-> FALSE]

OrchIdle ==
    /\ topic = <<>>
    /\ caller = "none"
    /\ pc = "idle"
    /\ rw = [c \in Collectors |-> "idle"]
    /\ attempt = [c \in Collectors |-> 0]
    /\ pending = [c \in Collectors |-> {}]
    /\ lastError = [c \in Collectors |-> <<>>]
    /\ settled = [c \in Collectors |-> [status |-> "pending"]]
    /\ invoked = [c \in Collectors |-> 0]
    /\ work = [joined |-> FALSE]
    /\ report = [returned |-> FALSE]
    /\ waited = [c \in Collectors |-> <<>>]
    /\ settleOrder = <<>>

\* new RuleOfThirdsOrchestrator(config)
Init ==
    /\ retries \in {Configured(cfg, DefaultRetries) : cfg \in RetriesConfigs}
    /\ llm = DefaultLlm
    /\ OrchIdle
    /\ AgentIdle
    /\ SourcesIdle
    /\ CacheIdle
    /\ PureIdle

\* configure(config): { ...this.config, ...config }
Configure(n) ==
    /\ pc = "idle"
    /\ retries' = n
    /\ UNCHANGED <<topic, caller, pc, rw, attempt, pending, lastError, settled, invoked,
                   work, report>>
    /\ UNCHANGED <<waited, outsideOrchestrate>>

\* a direct call of orchestrate(topic)
DirectOrchestrate(t) ==
    /\ pc = "idle"
    /\ topic' = t
    /\ caller' = "direct"
    /\ pc' = "setup"
    /\ UNCHANGED <<retries, rw, attempt, pending, lastError, settled, invoked, work, report>>
    /\ UNCHANGED <<waited, outsideOrchestrate>>

\* handleTriangulateAnalysis: args.topic goes to orchestrate as it came
McpTriangulate(t) ==
    /\ pc = "idle"
    /\ topic' = t
    /\ caller' = "mcp"
    /\ pc' = "setup"
    /\ UNCHANGED <<retries, rw, attempt, pending, lastError, settled, invoked, work, report>>
    /\ UNCHANGED <<waited, outsideOrchestrate>>

\* POST /api/orchestrate: 400 for a blank topic, else orchestrate(topic.trim())
HttpOrchestrate(t) ==
    /\ pc = "idle"
    /\ caller' = "http"
    /\ IF t = <<>> \/ Len(Trim(t)) = 0
       THEN /\ topic' = t
            /\ report' = [returned |-> TRUE, status |-> 400, error |-> TopicRequiredMessage]
            /\ pc' = "done"
       ELSE /\ topic' = Trim(t)
            /\ pc' = "setup"
            /\ UNCHANGED report
    /\ UNCHANGED <<retries, rw, attempt, pending, lastError, settled, invoked, work>>
    /\ UNCHANGED <<waited, outsideOrchestrate>>

\* what getChatCompletions can do once it is called
LlmOutcomes == {"skipped", "answers", "fails"}

LlmFailedMessage == <<"Azure OpenAI API call failed">>
NotInitializedMessage == <<"Azure OpenAI client not initialized">>
FallbackText == "LLM synthesis unavailable - using template prompts for manual analysis"

\* let llmSynthesis = null
NullSynthesis == [absent |-> TRUE]

\* the test of synthesizeInsights with the client left out
LlmEnabled(cfg) == cfg.enabled
\* if (this.config.enableLlmSynthesis && this.azureOpenAI)
LlmSynthesisWanted(cfg) == cfg.enabled /\ cfg.client

\* signals.x.status === 'success' && signals.x.signalCount > 0
HasData(signals, c) ==
    signals[c].status = "success" /\ OrZero(signals[c], "signalCount") > 0

\* identifyCrossReferences(signals)
IdentifyCrossReferences(signals) ==
    (IF HasData(signals, "external") /\ HasData(signals, "internal")
           /\ HasData(signals, "product")
     THEN << [type |-> "multi_source_validation", priority |-> "high"] >> ELSE <<>>)
    \o (IF HasData(signals, "external") /\ HasData(signals, "internal")
        THEN << [type |-> "market_research_alignment", priority |-> "high"] >> ELSE <<>>)
    \o (IF HasData(signals, "internal") /\ HasData(signals, "product")
        THEN << [type |-> "metrics_research_validation", priority |-> "medium"] >>
        ELSE <<>>)

\* the template with its placeholders replaced, then enrichPromptWithSignalData:
\* a section for each list the slots have, of its first five items
TopOf(slot, list) == IF Has(slot, list) THEN Slice(slot[list], 5) ELSE <<>>
EnrichedPrompt(t, signals, metadata) ==
    [template |-> "primarySynthesis", topic |-> t,
     totalSignals |-> metadata.totalSignals,
     externalSignalCount |-> OrZero(signals.external, "signalCount"),
     internalSignalCount |-> OrZero(signals.internal, "signalCount"),
     productSignalCount |-> OrZero(signals.product, "signalCount"),
     topExternalSignals |-> TopOf(signals.external, "rankedSignals"),
     topInternalFindings |-> TopOf(signals.internal, "rankedFindings")]

\* callLlmApi(prompt): every error is wrapped and thrown again
CallLlmApi(cfg, outcome, prompt) ==
    IF ~cfg.client THEN Threw(NotInitializedMessage)
    ELSE IF outcome = "answers"
    THEN Returned([content |-> "synthesis", model |-> "deployment", prompt |-> prompt])
    ELSE Threw(LlmFailedMessage)

\* signals.x.signalCount > strong ? 'strong' : signals.x.signalCount > medium
\* ? 'medium' : 'weak'; a comparison with undefined is false
SignalStrength(slot, strong, medium) ==
    IF Has(slot, "signalCount") /\ slot.signalCount > strong THEN "strong"
    ELSE IF Has(slot, "signalCount") /\ slot.signalCount > medium THEN "medium"
    ELSE "weak"

ExecutiveSummary(signals, metadata) ==
    [totalSignals |-> metadata.totalSignals,
     coverage |->
         [percentage |-> RoundDiv(metadata.successfulAgents * 100, metadata.totalAgents),
          successful |-> metadata.successfulAgents,
          total |-> metadata.totalAgents,
          status |-> IF metadata.successfulAgents = metadata.totalAgents
                     THEN "complete" ELSE "partial"],
     signalStrength |->
         [external |-> [strength |-> SignalStrength(signals.external, 15, 5),
                        count |-> OrZero(signals.external, "signalCount")],
          internal |-> [strength |-> SignalStrength(signals.internal, 10, 3),
                        count |-> OrZero(signals.internal, "signalCount")],
          product |-> [strength |-> SignalStrength(signals.product, 20, 8),
                       count |-> OrZero(signals.product, "signalCount")]]]

QualityAssessment(metadata) ==
    [coverage |-> RoundDiv(metadata.successfulAgents * 100, metadata.totalAgents),
     signalReliability |-> IF metadata.totalSignals > 30 THEN "High"
                           ELSE IF metadata.totalSignals > 15 THEN "Medium" ELSE "Low",
     analysisConfidence |-> IF metadata.successfulAgents = metadata.totalAgents THEN "High"
                            ELSE IF metadata.successfulAgents >= 2 THEN "Medium" ELSE "Low"]

\* what synthesizeInsights returns; llmCalled is a ghost
SynthesizeInsightsResult(t, signals, metadata, cfg, outcome) ==
    LET enrichedPrompt == EnrichedPrompt(t, signals, metadata)
        call == CallLlmApi(cfg, outcome, enrichedPrompt)
    IN  [executiveSummary |-> ExecutiveSummary(signals, metadata),
         qualityAssessment |-> QualityAssessment(metadata),
         crossReferenceInsights |-> IdentifyCrossReferences(signals),
         llmSynthesis |->
             IF LlmSynthesisWanted(cfg)
             THEN IF call.threw THEN [error |-> call.error, fallback |-> FallbackText]
                  ELSE call.value
             ELSE NullSynthesis,
         llmPrompts |-> [primarySynthesis |-> enrichedPrompt],
         llmCalled |-> LlmSynthesisWanted(cfg)]

\* ensureOutputDirectory throws: orchestrate's catch block
EnsureOutputDirectoryFails ==
    /\ pc = "setup"
    /\ report' = [returned |-> TRUE, success |-> FALSE, error |-> MkdirMessage]
    /\ pc' = "done"
    /\ UNCHANGED <<retries, topic, caller, rw, attempt, pending, lastError, settled,
                   invoked, work>>
    /\ UNCHANGED <<waited, outsideOrchestrate>>

\* ensureOutputDirectory returns and the array literal starts the three
\* runWithRetry calls, each up to its first await
StartAgents ==
    /\ pc = "setup"
    /\ pc' = "agents"
    /\ rw' = [c \in Collectors |->
                IF LoopContinues(1, retries) THEN "racing" ELSE "rejected"]
    /\ attempt' = [c \in Collectors |-> IF LoopContinues(1, retries) THEN 1 ELSE 0]
    /\ invoked' = [c \in Collectors |-> IF LoopContinues(1, retries) THEN 1 ELSE 0]
    /\ settled' = [c \in Collectors |->
                IF LoopContinues(1, retries) THEN [status |-> "pending"]
                ELSE [status |-> "rejected",
                      reason |-> RunWithRetryThrow(c, retries, lastError[c])]]
    /\ UNCHANGED <<retries, topic, caller, pending, lastError, work, report>>
    /\ UNCHANGED <<waited, outsideOrchestrate>>

\* the for statement's test with attempt = k, last being lastError
LoopStep(c, k, last) ==
    IF LoopContinues(k, retries)
    THEN /\ rw' = [rw EXCEPT ![c] = "racing"]
         /\ attempt' = [attempt EXCEPT ![c] = k]
         /\ invoked' = [invoked EXCEPT ![c] = @ + 1]
         /\ UNCHANGED settled
    ELSE /\ rw' = [rw EXCEPT ![c] = "rejected"]
         /\ settled' = [settled EXCEPT ![c] =
                [status |-> "rejected", reason |-> RunWithRetryThrow(c, retries, last)]]
         /\ UNCHANGED <<attempt, invoked>>

\* runWithRetry's catch block
FailAttempt(c, err, stillRunning) ==
    /\ lastError' = [lastError EXCEPT ![c] = err]
    /\ pending' = [pending EXCEPT ![c] = IF stillRunning THEN @ \cup {attempt[c]} ELSE @]
    /\ IF BackoffBeforeRetry(attempt[c], retries)
       THEN /\ rw' = [rw EXCEPT ![c] = "backoff"]
            /\ UNCHANGED <<attempt, invoked, settled>>
       ELSE LoopStep(c, attempt[c] + 1, err)

\* agentFn() settles before the timeout of its attempt
AgentSettles(c, env) ==
    /\ pc = "agents"
    /\ rw[c] = "racing"
    /\ env \in Envs(c)
    /\ LET out == RunCollector(c, env.items, DefaultMaxResults(c), env.fault, attempt[c])
       IN  IF out.settle = "resolved"
           THEN /\ rw' = [rw EXCEPT ![c] = "fulfilled"]
                /\ settled' = [settled EXCEPT ![c] =
                       PromiseRace(FALSE, @, [status |-> "fulfilled", value |-> out.value])]
                /\ UNCHANGED <<attempt, invoked, lastError, pending>>
           ELSE FailAttempt(c, out.reason, FALSE)
    /\ UNCHANGED <<retries, topic, caller, pc, work, report>>
    /\ UNCHANGED <<waited, outsideOrchestrate>>

\* the timer of the running attempt fires first
Timeout(c) ==
    /\ pc = "agents"
    /\ rw[c] = "racing"
    /\ FailAttempt(c, TimeoutMessage, TRUE)
    /\ UNCHANGED <<retries, topic, caller, pc, work, report>>
    /\ UNCHANGED <<waited, outsideOrchestrate>>

\* the backoff timer fires
BackoffElapses(c) ==
    /\ pc = "agents"
    /\ rw[c] = "backoff"
    /\ LoopStep(c, attempt[c] + 1, lastError[c])
    /\ waited' = [waited EXCEPT ![c] = Append(@, BackoffTime(attempt[c]))]
    /\ UNCHANGED <<retries, topic, caller, pc, pending, lastError, work, report>>
    /\ UNCHANGED outsideOrchestrate

\* the agentFn() call of a timed-out attempt settles at last
LateSettle(c, k, env) ==
    /\ k \in pending[c]
    /\ env \in Envs(c)
    /\ pending' = [pending EXCEPT ![c] = @ \ {k}]
    /\ LET out == RunCollector(c, env.items, DefaultMaxResults(c), env.fault, k)
       IN  settled' = [settled EXCEPT ![c] =
               IF out.settle = "resolved"
               THEN PromiseRace(TRUE, @, [status |-> "fulfilled", value |-> out.value])
               ELSE @]
    /\ UNCHANGED <<retries, topic, caller, pc, rw, attempt, lastError, invoked, work, report>>
    /\ UNCHANGED <<waited, outsideOrchestrate>>

\* the collectors in the order of orchestrate's array literal
Declared == <<"external", "internal", "product">>

\* the three results handed out in the order their promises settled
DestructureByArrival(results, arrival) ==
    IF Len(arrival) = Len(Declared)
    THEN [c \in Collectors |->
             results[arrival[CHOOSE i \in 1..Len(Declared) : Declared[i] = c]]]
    ELSE results
\* const [externalResult, internalResult, productResult] = results: the
\* array of Promise.allSettled is in the order of its input
Destructure(results, arrival) == results

\* await Promise.allSettled([...]) resumes; slots and metadata are computed
Join ==
    /\ pc = "agents"
    /\ LET j == PromiseAllSettled(settled)
           results == Destructure(settled, settleOrder)
       IN  /\ j.done
           /\ IF j.rejected
              THEN /\ report' = [returned |-> TRUE, success |-> FALSE,
                                 error |-> settled[j.reason].reason]
                   /\ pc' = "done"
                   /\ UNCHANGED work
              ELSE /\ work' =
                        LET data == [c \in Collectors |-> SlotData(results[c])]
                        IN  [joined |-> TRUE,
                             signals |-> data,
                             metadata |-> [totalSignals |-> TotalSignals(data),
                                           agentStatus |-> AgentStatus(results),
                                           successfulAgents |-> SuccessfulAgents(results),
                                           totalAgents |-> 3]]
                   /\ pc' = "synth"
                   /\ UNCHANGED report
    /\ UNCHANGED <<retries, topic, caller, rw, attempt, pending, lastError, settled, invoked>>
    /\ UNCHANGED <<waited, outsideOrchestrate>>

\* synthesizeInsights returns; outcome is what the LLM call did, if one was made
SynthesizeInsights(outcome) ==
    /\ pc = "synth"
    /\ outcome = "skipped" <=> ~LlmSynthesisWanted(llm)
    /\ work' = Spread(work, "insights",
                      SynthesizeInsightsResult(topic, work.signals, work.metadata,
                                               llm, outcome))
    /\ pc' = "outputs"
    /\ UNCHANGED <<retries, topic, caller, rw, attempt, pending, lastError, settled,
                   invoked, report>>
    /\ UNCHANGED <<waited, outsideOrchestrate>>

\* generateOutputs returns and orchestrate returns the report
GenerateOutputs ==
    /\ pc = "outputs"
    /\ report' = [returned |-> TRUE, success |-> TRUE, topic |-> topic,
                  signals |-> work.signals, insights |-> work.insights,
                  metadata |-> work.metadata]
    /\ pc' = "done"
    /\ UNCHANGED <<retries, topic, caller, rw, attempt, pending, lastError, settled,
                   invoked, work>>
    /\ UNCHANGED <<waited, outsideOrchestrate>>

\* a writeFile of generateOutputs throws: orchestrate's catch block
GenerateOutputsFails ==
    /\ pc = "outputs"
    /\ report' = [returned |-> TRUE, success |-> FALSE, error |-> WriteFileMessage]
    /\ pc' = "done"
    /\ UNCHANGED <<retries, topic, caller, rw, attempt, pending, lastError, settled,
                   invoked, work>>
    /\ UNCHANGED <<waited, outsideOrchestrate>>

Next ==
    \/ \E n \in 0..MaxRetries : Configure(n)
    \/ \E t \in Topics : DirectOrchestrate(t)
    \/ \E t \in Topics : McpTriangulate(t)
    \/ \E t \in Topics : HttpOrchestrate(t)
    \/ EnsureOutputDirectoryFails
    \/ StartAgents
    \/ \E c \in Collectors : \E env \in Envs(c) : AgentSettles(c, env)
    \/ \E c \in Collectors : Timeout(c)
    \/ \E c \in Collectors : BackoffElapses(c)
    \/ \E c \in Collectors : \E k \in 1..(MaxRetries + 1) : \E env \in Envs(c) :
           LateSettle(c, k, env)
    \/ Join
    \/ \E outcome \in LlmOutcomes : SynthesizeInsights(outcome)
    \/ GenerateOutputs
    \/ GenerateOutputsFails

Spec == Init /\ [][Next]_vars

\* timers fire and orchestrate's own file and LLM calls complete; nothing
\* makes a collector's call settle, and nobody has to call orchestrate
Fairness ==
    /\ WF_vars(EnsureOutputDirectoryFails \/ StartAgents)
    /\ \A c \in Collectors : WF_vars(Timeout(c))
    /\ \A c \in Collectors : WF_vars(BackoffElapses(c))
    /\ WF_vars(Join)
    /\ WF_vars(\E outcome \in LlmOutcomes : SynthesizeInsights(outcome))
    /\ WF_vars(GenerateOutputs \/ GenerateOutputsFails)

\* one call of orchestrate by a direct caller, for every retries value the
\* constructor can have left in the configuration
NextOrchestrate ==
    \/ DirectOrchestrate(<<"a">>)
    \/ EnsureOutputDirectoryFails
    \/ StartAgents
    \/ \E c \in Collectors : \E env \in Envs(c) : AgentSettles(c, env)
    \/ \E c \in Collectors : Timeout(c)
    \/ \E c \in Collectors : BackoffElapses(c)
    \/ \E c \in Collectors : \E k \in 1..(MaxRetries + 1) : \E env \in Envs(c) :
           LateSettle(c, k, env)
    \/ Join
    \/ \E outcome \in LlmOutcomes : SynthesizeInsights(outcome)
    \/ GenerateOutputs
    \/ GenerateOutputsFails

SpecFair == Init /\ [][NextOrchestrate]_vars /\ Fairness

\* the collector calls on their own, under the default orchestrator
InitCollect ==
    /\ retries = DefaultRetries
    /\ llm = DefaultLlm
    /\ OrchIdle
    /\ AgentIdle
    /\ SourcesIdle
    /\ CacheIdle
    /\ PureIdle

NextCollect ==
    \/ \E c \in Collectors : \E cfg \in MaxResultsConfigs : CollectorInvoke(c, cfg)
    \/ \E item \in ExternalSamples \cup InternalSamples \cup ProductSamples :
           SubSourceYields(item)
    \/ CollectorThrows
    \/ CollectorReturns

SpecCollect == InitCollect /\ [][NextCollect]_vars

-----------------------------------------------------------------------------
(* A collector call seen sub-source by sub-source *)

\* rssSources entries, custom endpoints and discovered files explored
MaxFeeds == 2
MaxEndpoints == 2
MaxFiles == 2

\* the topic of the calls
CheckoutFlow ==
    <<"c", "h", "e", "c", "k", "o", "u", "t", " ", "f", "l", "o", "w">>

\* generateSimulatedNewsData: the titles around ${topic}
NewsTitle1Head ==
    <<"I", "n", "d", "u", "s", "t", "r", "y", " ", "A", "n", "a", "l", "y",
      "s", "i", "s", ":", " ">>

NewsTitle1Tail ==
    <<" ", "T", "r", "e", "n", "d", "s", " ", "R", "e", "s", "h", "a", "p",
      "e", " ", "M", "a", "r", "k", "e", "t", " ", "L", "a", "n", "d", "s",
      "c", "a", "p", "e">>

NewsTitle2Head ==
    <<"B", "r", "e", "a", "k", "i", "n", "g", ":", " ", "M", "a", "j", "o",
      "r", " ", "I", "n", "v", "e", "s", "t", "m", "e", "n", "t", " ", "i",
      "n", " ">>

NewsTitle2Tail ==
    <<" ", "S", "o", "l", "u", "t", "i", "o", "n", "s">>

NewsTitle3Head ==
    <<"R", "e", "s", "e", "a", "r", "c", "h", " ", "R", "e", "p", "o", "r",
      "t", ":", " ", "C", "o", "n", "s", "u", "m", "e", "r", " ", "A", "d",
      "o", "p", "t", "i", "o", "n", " ", "o", "f", " ">>

NewsTitle3Tail ==
    <<" ", "A", "c", "c", "e", "l", "e", "r", "a", "t", "e", "s">>

\* generateSimulatedYouTubeData: the titles around ${topic}
VideoTitle1Tail ==
    <<" ", "E", "x", "p", "l", "a", "i", "n", "e", "d", ":", " ", "C", "o",
      "m", "p", "l", "e", "t", "e", " ", "G", "u", "i", "d", "e", " ", "f",
      "o", "r", " ", "P", "r", "o", "f", "e", "s", "s", "i", "o", "n", "a",
      "l", "s">>

VideoTitle2Head ==
    <<"I", "n", "d", "u", "s", "t", "r", "y", " ", "L", "e", "a", "d", "e",
      "r", "s", " ", "D", "i", "s", "c", "u", "s", "s", " ">>

VideoTitle2Tail ==
    <<" ", "F", "u", "t", "u", "r", "e", " ", "T", "r", "e", "n", "d", "s">>

\* generateSimulatedNewsData(topic, productArea)
GenerateSimulatedNewsData(t) ==
    [type |-> "news", status |-> "success", count |-> 3, source |-> "Simulated News Data",
     signals |->
       << [type |-> "news_article", text |-> NewsTitle1Head \o t \o NewsTitle1Tail,
           age |-> 2, relevanceScore |-> 85, metadata |-> [simulated |-> TRUE],
           origin |-> "generator"],
          [type |-> "news_article", text |-> NewsTitle2Head \o t \o NewsTitle2Tail,
           age |-> 1, relevanceScore |-> 78, metadata |-> [simulated |-> TRUE],
           origin |-> "generator"],
          [type |-> "news_article", text |-> NewsTitle3Head \o t \o NewsTitle3Tail,
           age |-> 3, relevanceScore |-> 72, metadata |-> [simulated |-> TRUE],
           origin |-> "generator"] >>]

\* generateSimulatedYouTubeData(topic, productArea)
GenerateSimulatedYouTubeData(t) ==
    [type |-> "youtube", status |-> "success", count |-> 2,
     source |-> "Simulated YouTube Data",
     signals |->
       << [type |-> "youtube_video", text |-> t \o VideoTitle1Tail,
           age |-> 5, relevanceScore |-> 88, metadata |-> [simulated |-> TRUE],
           origin |-> "generator"],
          [type |-> "youtube_video", text |-> VideoTitle2Head \o t \o VideoTitle2Tail,
           age |-> 7, relevanceScore |-> 81, metadata |-> [simulated |-> TRUE],
           origin |-> "generator"] >>]

(* What the providers can answer: text is title + ' ' + description *)

ArticleOnTopicText ==
    <<"C", "h", "e", "c", "k", "o", "u", "t", " ", "f", "l", "o", "w", " ",
      "r", "e", "d", "e", "s", "i", "g", "n", " ", "l", "i", "f", "t", "s",
      " ", "c", "o", "n", "v", "e", "r", "s", "i", "o", "n", " ", "f", "o",
      "r", " ", "o", "n", "l", "i", "n", "e", " ", "r", "e", "t", "a", "i",
      "l", "e", "r", "s", " ", "t", "h", "i", "s", " ", "q", "u", "a", "r",
      "t", "e", "r">>

ArticleShortText ==
    <<"M", "a", "r", "k", "e", "t", "s", " ", "r", "a", "l", "l", "y">>

VideoShortText ==
    <<"C", "h", "e", "c", "k", "o", "u", "t", " ", "f", "l", "o", "w", " ",
      "t", "e", "a", "r", "d", "o", "w", "n">>

FeedItemShortText ==
    <<"C", "h", "e", "c", "k", "o", "u", "t", " ", "f", "l", "o", "w", " ",
      "t", "i", "p", "s">>

FeedItemOffTopicText ==
    <<"G", "a", "r", "d", "e", "n", "i", "n", "g", " ", "i", "n", " ", "a",
      "u", "t", "u", "m", "n">>

ArticleOnTopic == [text |-> ArticleOnTopicText, age |-> 1]
ArticleShort == [text |-> ArticleShortText, age |-> 2]
VideoShort == [text |-> VideoShortText, age |-> 10]
FeedItemShort == [text |-> FeedItemShortText, age |-> AbsentDate]
FeedItemOffTopic == [text |-> FeedItemOffTopicText, age |-> 40]

\* a provider call: it failed (network error, !response.ok, error payload), or
\* it answered with items
ProviderFails == [ok |-> FALSE, items |-> <<>>]
NewsApiOutcomes ==
    {ProviderFails, [ok |-> TRUE, items |-> <<>>],
     [ok |-> TRUE, items |-> <<ArticleShort>>],
     [ok |-> TRUE, items |-> <<ArticleOnTopic, ArticleShort>>]}
YouTubeApiOutcomes == {ProviderFails, [ok |-> TRUE, items |-> <<VideoShort>>]}
FeedOutcomes ==
    {ProviderFails, [ok |-> TRUE, items |-> <<FeedItemShort, FeedItemOffTopic>>],
     [ok |-> TRUE, items |-> <<FeedItemOffTopic>>]}

\* items.map(item => ({ type, ..., relevanceScore: this.calculateRelevance(
\* title + ' ' + description, topic, productArea), metadata })): the scores, or
\* the throw of the first call that throws
ScoreItems(items, t, area) ==
    LET scores == [i \in 1..Len(items) |-> CalculateRelevance(items[i].text, t, area)]
    IN  IF \E i \in 1..Len(items) : scores[i].threw
        THEN Threw("SyntaxError")
        ELSE Returned([i \in 1..Len(items) |-> scores[i].value])

ProviderSignals(items, scores, type, metadata) ==
    [i \in 1..Len(items) |->
        [type |-> type, text |-> items[i].text, age |-> items[i].age,
         relevanceScore |-> scores[i], metadata |-> metadata, origin |-> "provider"]]

\* gatherNewsSignals: no key, a failed call and a throw inside the try block
\* all end in generateSimulatedNewsData
GatherNewsSignals(cfg, outcome) ==
    LET scored == ScoreItems(outcome.items, cfg.topic, cfg.productArea)
    IN  IF ~cfg.newsApiKey \/ ~outcome.ok \/ scored.threw
        THEN GenerateSimulatedNewsData(cfg.topic)
        ELSE [type |-> "news", status |-> "success", count |-> Len(outcome.items),
              source |-> "News API",
              signals |-> ProviderSignals(outcome.items, scored.value, "news_article",
                                          [author |-> "author"])]

\* gatherYouTubeSignals without the branch for a missing key: the request is
\* made without a key and refused
GatherYouTubeSignalsNoFallback(cfg, outcome) ==
    LET scored == ScoreItems(outcome.items, cfg.topic, cfg.productArea)
    IN  IF ~cfg.youtubeApiKey \/ ~outcome.ok \/ scored.threw
        THEN [type |-> "youtube", status |-> "failed", count |-> 0,
              error |-> "YouTube API error"]
        ELSE [type |-> "youtube", status |-> "success", count |-> Len(outcome.items),
              source |-> "YouTube API",
              signals |-> ProviderSignals(outcome.items, scored.value, "youtube_video",
                                          [channelId |-> "channel"])]

\* gatherYouTubeSignals: no key gives generateSimulatedYouTubeData; a failed
\* call or a throw gives a failed source without signals
GatherYouTubeSignals(cfg, outcome) ==
    LET scored == ScoreItems(outcome.items, cfg.topic, cfg.productArea)
    IN  IF ~cfg.youtubeApiKey THEN GenerateSimulatedYouTubeData(cfg.topic)
        ELSE IF ~outcome.ok \/ scored.threw
        THEN [type |-> "youtube", status |-> "failed", count |-> 0,
              error |-> "YouTube API error"]
        ELSE [type |-> "youtube", status |-> "success", count |-> Len(outcome.items),
              source |-> "YouTube API",
              signals |-> ProviderSignals(outcome.items, scored.value, "youtube_video",
                                          [channelId |-> "channel"])]

\* the filter of gatherRSSSignals on one item
FeedItemMentions(item, t, area) ==
    LET content == ToLowerCase(item.text)
    IN  \/ Includes(content, ToLowerCase(t))
        \/ area # <<>> /\ Includes(content, ToLowerCase(area))

\* the signals of feed number k: a feed whose parseURL failed is null and is
\* filtered out; scored is the ScoreItems of the items that pass the filter
FeedSignals(k, feed, t, area) ==
    LET kept == SelectSeq(feed.items, LAMBDA item : FeedItemMentions(item, t, area))
        scored == ScoreItems(kept, t, area)
    IN  IF ~feed.ok THEN Returned(<<>>)
        ELSE IF scored.threw THEN scored
        ELSE Returned(ProviderSignals(kept, scored.value, "rss_article", [feedUrl |-> k]))

\* gatherRSSSignals without the try/catch around parseURL: one unreachable feed
\* rejects Promise.all and the outer catch block answers
GatherRSSSignalsFailFast(cfg, feeds) ==
    IF \E k \in 1..Len(feeds) : ~feeds[k].ok
    THEN [type |-> "rss", status |-> "failed", count |-> 0, error |-> "feed unreachable"]
    ELSE LET signals == Flatten([k \in 1..Len(feeds) |->
                 FeedSignals(k, feeds[k], cfg.topic, cfg.productArea).value])
         IN  [type |-> "rss", status |-> "success", count |-> Len(signals),
              source |-> "RSS feeds", signals |-> signals]

\* gatherRSSSignals over the feeds' outcomes, in rssSources order
GatherRSSSignals(cfg, feeds) ==
    LET perFeed == [k \in 1..Len(feeds) |->
                        FeedSignals(k, feeds[k], cfg.topic, cfg.productArea)]
        signals == Flatten([k \in 1..Len(feeds) |->
                        IF perFeed[k].threw THEN <<>> ELSE perFeed[k].value])
    IN  IF \E k \in 1..Len(feeds) : perFeed[k].threw
        THEN [type |-> "rss", status |-> "failed", count |-> 0, error |-> "SyntaxError"]
        ELSE [type |-> "rss", status |-> "success", count |-> Len(signals),
              source |-> "RSS feeds", signals |-> signals]

\* signals.sources.flatMap(source => source.signals || [])
AllSignals(sources) ==
    Flatten([i \in 1..Len(sources) |->
        IF Has(sources[i], "signals") THEN sources[i].signals ELSE <<>>])

\* the return statement of gatherSignals, with its sources property
GatherSignalsResult(sources, maxResults) ==
    Spread(GatherSignalsReturn(RankSignalsByRelevance(AllSignals(sources)), maxResults, 1),
           "sources", sources)

(* Product collector, data source by data source *)

\* the simulated generators loop over seven days
SimulatedDays == 7
\* metrics per day of a generic and of a Bicep-related category; Amplitude events
GenericMetrics == 2
BicepMetrics == 4
AmplitudeEvents == 4

\* the topic keywords that switch the generators to the Bicep vocabulary
BicepKeywords ==
    { <<"b", "i", "c", "e", "p">>,
      <<"i", "n", "f", "r", "a", "s", "t", "r", "u", "c", "t", "u", "r", "e">>,
      <<"d", "e", "p", "l", "o", "y", "m", "e", "n", "t">>,
      <<"i", "a", "c">>,
      <<"t", "e", "s", "t", "i", "n", "g">>,
      <<"v", "a", "l", "i", "d", "a", "t", "i", "o", "n">> }

IsBicepRelated(t) == \E k \in BicepKeywords : Includes(ToLowerCase(t), k)

\* generateSimulatedUsageData(...).length, and the like
SimulatedDataPoints(t) ==
    SimulatedDays * (IF IsBicepRelated(t) THEN BicepMetrics ELSE GenericMetrics)

Categories ==
    <<"usage_metrics", "performance_metrics", "engagement_metrics", "conversion_metrics">>

\* collectUsageMetrics and its three siblings: the generator's data, or the
\* catch block's failed source
CollectCategoryMetrics(category, cfg, throws) ==
    IF throws
    THEN [type |-> category, status |-> "failed", error |-> "generator error",
          dataPoints |-> 0]
    ELSE [type |-> category, status |-> "success", source |-> "Analytics",
          dataPoints |-> SimulatedDataPoints(cfg.topic),
          metadata |-> [timeframe |-> "7d"], origin |-> "generator"]

\* collectCustomMetrics: an endpoint that fails or answers !ok is skipped
\* (data holds the index of each endpoint that answered)
CollectCustomMetrics(endpoints) ==
    LET customData == SelectSeq([k \in 1..Len(endpoints) |-> k], LAMBDA k : endpoints[k].ok)
    IN  [type |-> "custom_metrics", status |-> "success", source |-> "Custom Endpoints",
         dataPoints |-> Len(customData), data |-> customData,
         metadata |-> [endpoints |-> Len(endpoints)], origin |-> "provider"]

\* collectAmplitudeMetrics: the platform's rows, or on failure the data of
\* generateSimulatedAmplitudeData
CollectAmplitudeMetrics(outcome) ==
    IF outcome.ok
    THEN [type |-> "amplitude_metrics", status |-> "success",
          source |-> "Amplitude Analytics", dataPoints |-> outcome.rows,
          metadata |-> [timeframe |-> "7d"], origin |-> "provider"]
    ELSE [type |-> "amplitude_metrics", status |-> "success",
          source |-> "Simulated Amplitude Data",
          dataPoints |-> AmplitudeEvents * SimulatedDays,
          metadata |-> [simulated |-> TRUE], origin |-> "generator"]

EndpointOutcomes == {[ok |-> TRUE], [ok |-> FALSE]}
AmplitudeOutcomes == {[ok |-> FALSE, rows |-> 0], [ok |-> TRUE, rows |-> 3]}

(* Internal collector, file by file *)

\* the document of end-to-end scenario C
ScenarioCText ==
    <<"#", " ", "R", "e", "p", "o", "r", "t", "\n", "U", "s", "e", "r", "s",
      " ", "l", "o", "v", "e", "d", " ", "t", "h", "e", " ", "c", "h", "e",
      "c", "k", "o", "u", "t", " ", "f", "l", "o", "w", " ", "r", "e", "d",
      "e", "s", "i", "g", "n", ".">>

InterviewNotesText ==
    <<"I", "n", "t", "e", "r", "v", "i", "e", "w", " ", "n", "o", "t", "e",
      "s", ".", " ", "U", "s", "e", "r", "s", " ", "t", "o", "l", "d", " ",
      "u", "s", " ", "t", "h", "e", " ", "c", "h", "e", "c", "k", "o", "u",
      "t", " ", "f", "l", "o", "w", " ", "r", "e", "d", "e", "s", "i", "g",
      "n", " ", "m", "a", "d", "e", " ", "p", "a", "y", "i", "n", "g", " ",
      "f", "o", "r", " ", "l", "a", "r", "g", "e", " ", "o", "r", "d", "e",
      "r", "s", " ", "m", "u", "c", "h", " ", "f", "a", "s", "t", "e", "r",
      ".", " ", "N", "o", "t", "h", "i", "n", "g", " ", "e", "l", "s", "e",
      " ", "c", "h", "a", "n", "g", "e", "d", "!">>

PlanningMemoText ==
    <<"Q", "u", "a", "r", "t", "e", "r", "l", "y", " ", "p", "l", "a", "n",
      "n", "i", "n", "g", " ", "m", "e", "m", "o", ".", " ", "T", "h", "e",
      " ", "t", "e", "a", "m", " ", "a", "g", "r", "e", "e", "d", " ", "t",
      "o", " ", "r", "e", "v", "i", "s", "i", "t", " ", "h", "i", "r", "i",
      "n", "g", " ", "t", "a", "r", "g", "e", "t", "s", " ", "a", "n", "d",
      " ", "t", "o", " ", "m", "o", "v", "e", " ", "t", "h", "e", " ", "o",
      "f", "f", "s", "i", "t", "e", " ", "t", "o", " ", "t", "h", "e", " ",
      "s", "p", "r", "i", "n", "g", ".", " ", "N", "o", " ", "d", "e", "c",
      "i", "s", "i", "o", "n", "s", " ", "y", "e", "t", ".">>

ScenarioCFile ==
    [fileName |-> "report.md", fileType |-> ".md", readable |-> TRUE, text |-> ScenarioCText]
InterviewNotesFile ==
    [fileName |-> "notes.md", fileType |-> ".md", readable |-> TRUE,
     text |-> InterviewNotesText]
PlanningMemoFile ==
    [fileName |-> "memo.txt", fileType |-> ".txt", readable |-> TRUE,
     text |-> PlanningMemoText]
UnreadableFile ==
    [fileName |-> "locked.txt", fileType |-> ".txt", readable |-> FALSE, text |-> <<>>]

FileSamples == {ScenarioCFile, InterviewNotesFile, PlanningMemoFile, UnreadableFile}

\* the skip-short-findings threshold of generateFindings
MinFindingLength == 50
\* the skip-short-content threshold of isRelevantContent is in IsRelevantContent

\* one element of processResearchFiles' results: <<>> is null.  For .md and
\* .txt files extractFileContent returns the file's content as its text
ProcessResearchFile(file, t, area) ==
    LET score == CalculateContentRelevance(file.text, t, area)
    IN  IF ~file.readable THEN <<>>
        ELSE IF ~IsRelevantContent(file.text, t, area) THEN <<>>
        ELSE IF score.threw THEN <<>>
        ELSE << [fileName |-> file.fileName, fileType |-> file.fileType,
                 content |-> file.text, relevanceScore |-> score.value] >>

\* processResearchFiles: results.filter(result => result !== null)
ProcessResearchFiles(files, t, area) ==
    Flatten([i \in 1..Len(files) |-> ProcessResearchFile(files[i], t, area)])

\* the findings generateFindings makes of one processed document
DocumentFindings(doc, t, area) ==
    LET sentences == SplitSentences(doc.content)
        relevantSentences ==
            SelectSeq(sentences, LAMBDA sentence :
                \/ Includes(ToLowerCase(sentence), ToLowerCase(t))
                \/ area # <<>> /\ Includes(ToLowerCase(sentence), ToLowerCase(area)))
        longEnough ==
            SelectSeq(relevantSentences, LAMBDA sentence :
                Len(Trim(sentence)) > MinFindingLength)
    IN  [i \in 1..Len(longEnough) |->
            [type |-> "textual_evidence", content |-> Trim(longEnough[i]),
             contentLength |-> Len(Trim(longEnough[i])), source |-> doc.fileName,
             relevanceScore |-> doc.relevanceScore, fileType |-> doc.fileType]]

GenerateFindings(processedContent, t, area) ==
    Flatten([i \in 1..Len(processedContent) |->
                DocumentFindings(processedContent[i], t, area)])

NoFilesMessage == "No research files found in configured directories"

GenerateEmptyResults ==
    [status |-> "success", findingCount |-> 0, filesProcessed |-> 0,
     rankedFindings |-> <<>>, message |-> NoFilesMessage]

\* analyzeResearch without the early return for an empty file list
AnalyzeResearchResultNoEarlyReturn(researchFiles, cfg) ==
    LET processedContent ==
            ProcessResearchFiles(researchFiles, cfg.topic, cfg.productArea)
        findings == GenerateFindings(processedContent, cfg.topic, cfg.productArea)
    IN  Spread(AnalyzeResearchReturn(RankFindings(findings), cfg.maxResults, 1),
               "filesProcessed", Len(processedContent))

\* analyzeResearch from the discovered files on
AnalyzeResearchResult(researchFiles, cfg) ==
    IF Len(researchFiles) = 0 THEN GenerateEmptyResults
    ELSE LET processedContent ==
                 ProcessResearchFiles(researchFiles, cfg.topic, cfg.productArea)
             findings == GenerateFindings(processedContent, cfg.topic, cfg.productArea)
         IN  Spread(AnalyzeResearchReturn(RankFindings(findings), cfg.maxResults, 1),
                    "filesProcessed", Len(processedContent))

\* the sequences without repetition of at most n of the files S
RECURSIVE FileLists(_, _)
FileLists(S, n) ==
    IF n = 0 THEN {<<>>}
    ELSE LET shorter == FileLists(S, n - 1)
         IN  shorter \cup {Append(l, f) : l \in shorter, f \in S}

DiscoveryOutcomes ==
    {[directoriesExist |-> FALSE, files |-> <<>>]}
    \cup {[directoriesExist |-> TRUE, files |-> l] :
            l \in {m \in FileLists(FileSamples, MaxFiles) :
                      \A i, j \in 1..Len(m) : i # j => m[i] # m[j]}}

(* The calls, step by step.  The sub-sources of one call run concurrently;   *)
(* each result goes to its own index of the array given to                   *)
(* Promise.allSettled, so the steps are taken here in array order.           *)

\* new ExternalSignalsAgent(config).gatherSignals(topic): default sources, the
\* keys and the feed list as configured
GatherSignalsCalled(newsApiKey, youtubeApiKey, feeds) ==
    /\ sPc = "idle"
    /\ sKind' = "external"
    /\ sCfg' = [configured |-> TRUE, topic |-> CheckoutFlow, productArea |-> <<>>,
                newsApiKey |-> newsApiKey, youtubeApiKey |-> youtubeApiKey,
                rssSources |-> feeds, maxResults |-> ExternalDefaultMaxResults]
    /\ sPc' = "news"
    /\ UNCHANGED <<sEnv, sSources, sResult>>
    /\ UNCHANGED outsideSources

\* gatherNewsSignals settles; without a key no request is made
NewsSettles(outcome) ==
    /\ sPc = "news"
    /\ sCfg.newsApiKey \/ outcome = ProviderFails
    /\ sSources' = Append(sSources, GatherNewsSignals(sCfg, outcome))
    /\ sEnv' = Spread(sEnv, "news", Spread(outcome, "called", sCfg.newsApiKey))
    /\ sPc' = "youtube"
    /\ UNCHANGED <<sKind, sCfg, sResult>>
    /\ UNCHANGED outsideSources

\* gatherYouTubeSignals settles
YouTubeSettles(outcome) ==
    /\ sPc = "youtube"
    /\ sCfg.youtubeApiKey \/ outcome = ProviderFails
    /\ sSources' = Append(sSources, GatherYouTubeSignals(sCfg, outcome))
    /\ sEnv' = Spread(sEnv, "youtube", Spread(outcome, "called", sCfg.youtubeApiKey))
    /\ sPc' = "rss"
    /\ UNCHANGED <<sKind, sCfg, sResult>>
    /\ UNCHANGED outsideSources

\* gatherRSSSignals settles, feeds[k] being what parseURL did for feed k
RssSettles(feeds) ==
    /\ sPc = "rss"
    /\ Len(feeds) = sCfg.rssSources
    /\ sSources' = Append(sSources, GatherRSSSignals(sCfg, feeds))
    /\ sEnv' = Spread(sEnv, "rss", feeds)
    /\ sPc' = "rank"
    /\ UNCHANGED <<sKind, sCfg, sResult>>
    /\ UNCHANGED outsideSources

\* the rest of gatherSignals' try block
GatherSignalsReturns ==
    /\ sPc = "rank"
    /\ sResult' = GatherSignalsResult(sSources, sCfg.maxResults)
    /\ sPc' = "returned"
    /\ UNCHANGED <<sKind, sCfg, sEnv, sSources>>
    /\ UNCHANGED outsideSources

\* new ProductMetricsAgent(config).collectMetrics(topic): default metrics, the
\* custom endpoints and the Amplitude keys as configured
CollectMetricsCalled(endpoints, amplitudeKeys) ==
    /\ sPc = "idle"
    /\ sKind' = "product"
    /\ sCfg' = [configured |-> TRUE, topic |-> CheckoutFlow, productArea |-> <<>>,
                customEndpoints |-> endpoints, amplitudeKeys |-> amplitudeKeys]
    /\ sPc' = Categories[1]
    /\ UNCHANGED <<sEnv, sSources, sResult>>
    /\ UNCHANGED outsideSources

\* what collectMetrics pushes after the four categories
AfterCategories(cfg) ==
    IF cfg.customEndpoints > 0 THEN "custom"
    ELSE IF cfg.amplitudeKeys THEN "amplitude" ELSE "aggregate"

\* collectUsageMetrics (or one of its siblings) settles
CategorySettles(k, throws) ==
    /\ k \in 1..Len(Categories)
    /\ sPc = Categories[k]
    /\ sSources' = Append(sSources, CollectCategoryMetrics(Categories[k], sCfg, throws))
    /\ sEnv' = Spread(sEnv, Categories[k], [ok |-> ~throws])
    /\ sPc' = IF k < Len(Categories) THEN Categories[k + 1] ELSE AfterCategories(sCfg)
    /\ UNCHANGED <<sKind, sCfg, sResult>>
    /\ UNCHANGED outsideSources

\* collectCustomMetrics settles, endpoints[k] being what fetch did for endpoint k
CustomSettles(endpoints) ==
    /\ sPc = "custom"
    /\ Len(endpoints) = sCfg.customEndpoints
    /\ sSources' = Append(sSources, CollectCustomMetrics(endpoints))
    /\ sEnv' = Spread(sEnv, "custom", endpoints)
    /\ sPc' = IF sCfg.amplitudeKeys THEN "amplitude" ELSE "aggregate"
    /\ UNCHANGED <<sKind, sCfg, sResult>>
    /\ UNCHANGED outsideSources

\* collectAmplitudeMetrics settles
AmplitudeSettles(outcome) ==
    /\ sPc = "amplitude"
    /\ sSources' = Append(sSources, CollectAmplitudeMetrics(outcome))
    /\ sEnv' = Spread(sEnv, "amplitude", outcome)
    /\ sPc' = "aggregate"
    /\ UNCHANGED <<sKind, sCfg, sResult>>
    /\ UNCHANGED outsideSources

\* the rest of collectMetrics' try block
CollectMetricsReturns ==
    /\ sPc = "aggregate"
    /\ sResult' = CollectMetricsReturn(sSources, 1)
    /\ sPc' = "returned"
    /\ UNCHANGED <<sKind, sCfg, sEnv, sSources>>
    /\ UNCHANGED outsideSources

\* new InternalResearchAgent(config).analyzeResearch(topic)
AnalyzeResearchCalled ==
    /\ sPc = "idle"
    /\ sKind' = "internal"
    /\ sCfg' = [configured |-> TRUE, topic |-> CheckoutFlow, productArea |-> <<>>,
                maxResults |-> InternalDefaultMaxResults]
    /\ sPc' = "discover"
    /\ UNCHANGED <<sEnv, sSources, sResult>>
    /\ UNCHANGED outsideSources

\* discoverResearchFiles returns: a directory that does not exist is skipped
DiscoverySettles(outcome) ==
    /\ sPc = "discover"
    /\ sSources' = outcome.files
    /\ sEnv' = Spread(sEnv, "directoriesExist", outcome.directoriesExist)
    /\ sPc' = "analyze"
    /\ UNCHANGED <<sKind, sCfg, sResult>>
    /\ UNCHANGED outsideSources

\* the rest of analyzeResearch's try block
AnalyzeResearchReturns ==
    /\ sPc = "analyze"
    /\ sResult' = AnalyzeResearchResult(sSources, sCfg)
    /\ sPc' = "returned"
    /\ UNCHANGED <<sKind, sCfg, sEnv, sSources>>
    /\ UNCHANGED outsideSources

\* all sequences of length n over S
SeqsOfLength(S, n) == [1..n -> S]

InitSources ==
    /\ retries = DefaultRetries
    /\ llm = DefaultLlm
    /\ OrchIdle
    /\ AgentIdle
    /\ SourcesIdle
    /\ CacheIdle
    /\ PureIdle

NextSources ==
    \/ \E newsApiKey, youtubeApiKey \in BOOLEAN : \E feeds \in 0..MaxFeeds :
           GatherSignalsCalled(newsApiKey, youtubeApiKey, feeds)
    \/ \E outcome \in NewsApiOutcomes : NewsSettles(outcome)
    \/ \E outcome \in YouTubeApiOutcomes : YouTubeSettles(outcome)
    \/ \E n \in 0..MaxFeeds : \E feeds \in SeqsOfLength(FeedOutcomes, n) : RssSettles(feeds)
    \/ GatherSignalsReturns
    \/ \E endpoints \in 0..MaxEndpoints : \E amplitudeKeys \in BOOLEAN :
           CollectMetricsCalled(endpoints, amplitudeKeys)
    \/ \E k \in 1..Len(Categories) : \E throws \in BOOLEAN : CategorySettles(k, throws)
    \/ \E n \in 0..MaxEndpoints : \E endpoints \in SeqsOfLength(EndpointOutcomes, n) :
           CustomSettles(endpoints)
    \/ \E outcome \in AmplitudeOutcomes : AmplitudeSettles(outcome)
    \/ CollectMetricsReturns
    \/ AnalyzeResearchCalled
    \/ \E outcome \in DiscoveryOutcomes : DiscoverySettles(outcome)
    \/ AnalyzeResearchReturns

SpecSources == InitSources /\ [][NextSources]_vars

-----------------------------------------------------------------------------
(* The relevance scorers called on their own *)

\* the longest topic and the longest content tried
MaxTopicLen == 2
MaxContentLen == 3

\* the strings of at most n characters of the alphabet A
StringsUpTo(A, n) == UNION {[1..k -> A] : k \in 0..n}

\* topics are made of a letter, the space and regular-expression syntax
\* characters; contents of letters and the space
TopicAlphabet == {"a", " ", "(", "[", "*", "+"}
ContentAlphabet == {"a", "A", " "}

\* a pattern source whose RegExp is either refused or matches the source itself
PlainOrRefused(source) == IsLiteral(source) \/ RegExpThrows(source)

\* the topics and focus terms all of whose patterns are plain or refused
ScorableTerm(term) ==
    /\ PlainOrRefused(ToLowerCase(term))
    /\ LET words == SplitOn(ToLowerCase(term), " ")
       IN  \A i \in 1..Len(words) : PlainOrRefused(words[i])

TopicSamples == {term \in StringsUpTo(TopicAlphabet, MaxTopicLen) : ScorableTerm(term)}
ContentSamples == StringsUpTo(ContentAlphabet, MaxContentLen)
\* the focus: null, a plain one and one with a syntax character
ProductAreaSamples == {<<>>, <<"a">>, <<"(">>}

ScoreInputs ==
    [given : {TRUE}, content : ContentSamples, topic : TopicSamples,
     productArea : ProductAreaSamples]

\* ExternalSignalsAgent.calculateRelevance(content, topic, productArea)
CalculateRelevanceCalled ==
    /\ fn = "none"
    /\ fnArgs.given
    /\ fn' = "calculateRelevance"
    /\ fnResult' = Spread(CalculateRelevance(fnArgs.content, fnArgs.topic,
                                             fnArgs.productArea), "called", TRUE)
    /\ UNCHANGED fnArgs
    /\ UNCHANGED outsidePure

\* InternalResearchAgent.calculateContentRelevance(content, topic, productArea)
CalculateContentRelevanceCalled ==
    /\ fn = "none"
    /\ fnArgs.given
    /\ fn' = "calculateContentRelevance"
    /\ fnResult' = Spread(CalculateContentRelevance(fnArgs.content, fnArgs.topic,
                                                    fnArgs.productArea), "called", TRUE)
    /\ UNCHANGED fnArgs
    /\ UNCHANGED outsidePure

InitScore ==
    /\ retries = DefaultRetries
    /\ llm = DefaultLlm
    /\ OrchIdle
    /\ AgentIdle
    /\ SourcesIdle
    /\ CacheIdle
    /\ fn = "none"
    /\ fnArgs \in ScoreInputs
    /\ fnResult = [called |-> FALSE]

NextScore ==
    \/ CalculateRelevanceCalled
    \/ CalculateContentRelevanceCalled

SpecScore == InitScore /\ [][NextScore]_vars

-----------------------------------------------------------------------------
(* ProductMetricsAgent.extractTrends called on its own.  A data point is    *)
(* [metric, date, value]: date is the day number of its date string, value  *)
(* an integer.  percentChange is kept in hundredths of a percent.           *)

\* the longest series of data points tried, besides the sample series
MaxPoints == 3

MetricSamples == {"daily_active_users", "feature_usage"}
DateSamples == {1, 2, 3}
ValueSamples == {0, 100, 120}

DataPoints == [metric : MetricSamples, date : DateSamples, value : ValueSamples]

\* seven daily points of one metric, from 100 to 120, as the generators push them
SevenPointSeries ==
    [i \in 1..SimulatedDays |->
        [metric |-> "daily_active_users", date |-> i,
         value |-> IF i = 1 THEN 100 ELSE IF i = SimulatedDays THEN 120 ELSE 100 + i]]

\* two points whose change is just above five percent
JustAboveFiveSeries ==
    << [metric |-> "feature_usage", date |-> 1, value |-> 20010],
       [metric |-> "feature_usage", date |-> 2, value |-> 21011] >>

\* two points whose change has no finite decimal expansion
ThirdsSeries ==
    << [metric |-> "feature_usage", date |-> 2, value |-> 4],
       [metric |-> "feature_usage", date |-> 1, value |-> 3] >>

TrendInputs ==
    UNION {[1..k -> DataPoints] : k \in 0..MaxPoints}
    \cup {SevenPointSeries, JustAboveFiveSeries, ThirdsSeries}

\* the keys of metricGroups in insertion order: the metrics of data by first
\* appearance
RECURSIVE MetricKeys(_)
MetricKeys(data) ==
    IF data = <<>> THEN <<>>
    ELSE LET earlier == MetricKeys(SubSeq(data, 1, Len(data) - 1))
             key == data[Len(data)].metric
         IN  IF \E i \in 1..Len(earlier) : earlier[i] = key THEN earlier
             ELSE Append(earlier, key)

\* metricGroups[key]
MetricGroup(data, key) == SelectSeq(data, LAMBDA p : p.metric = key)

\* items left in the order they were pushed
KeepOrder(items) == items

\* items.sort((a, b) => new Date(a.date).getTime() - new Date(b.date).getTime())
RECURSIVE InsertByDate(_, _)
InsertByDate(sorted, item) ==
    IF sorted = <<>> THEN <<item>>
    ELSE IF sorted[Len(sorted)].date <= item.date THEN Append(sorted, item)
    ELSE Append(InsertByDate(SubSeq(sorted, 1, Len(sorted) - 1), item),
                sorted[Len(sorted)])

RECURSIVE SortByDate(_)
SortByDate(items) ==
    IF items = <<>> THEN <<>>
    ELSE InsertByDate(SortByDate(SubSeq(items, 1, Len(items) - 1)), items[Len(items)])

\* n / d > c and n / d < c, without dividing
Above(n, d, c) == IF d > 0 THEN n > c * d ELSE n < c * d
Below(n, d, c) == IF d > 0 THEN n < c * d ELSE n > c * d

\* percentChange > 5 ? 'increasing' : percentChange < -5 ? 'decreasing' : 'stable'
\* for percentChange = firstValue !== 0 ? (lastValue - firstValue) / firstValue * 100 : 0
Direction(firstValue, lastValue) ==
    IF firstValue = 0 THEN "stable"
    ELSE IF Above((lastValue - firstValue) * 100, firstValue, 5) THEN "increasing"
    ELSE IF Below((lastValue - firstValue) * 100, firstValue, 0 - 5) THEN "decreasing"
    ELSE "stable"

\* Math.round(percentChange * 100) / 100, in hundredths
RoundedPercentChange(firstValue, lastValue) ==
    IF firstValue = 0 THEN 0
    ELSE RoundDiv((lastValue - firstValue) * 10000, firstValue)

\* the trend pushed for one group of more than one item
GroupTrend(key, items, sourceType) ==
    LET sortedItems == SortByDate(items)
        firstValue == sortedItems[1].value
        lastValue == sortedItems[Len(sortedItems)].value
    IN  [metric |-> key, sourceType |-> sourceType,
         direction |-> Direction(firstValue, lastValue),
         percentChange |-> RoundedPercentChange(firstValue, lastValue),
         dataPoints |-> Len(items)]

\* ProductMetricsAgent.extractTrends(data, sourceType)
ExtractTrends(data, sourceType) ==
    LET keys == SelectSeq(MetricKeys(data), LAMBDA key : Len(MetricGroup(data, key)) > 1)
    IN  [i \in 1..Len(keys) |-> GroupTrend(keys[i], MetricGroup(data, keys[i]), sourceType)]

ExtractTrendsCalled ==
    /\ fn = "none"
    /\ fnArgs.given
    /\ fn' = "extractTrends"
    /\ fnResult' = [called |-> TRUE, value |-> ExtractTrends(fnArgs.data, fnArgs.sourceType)]
    /\ UNCHANGED fnArgs
    /\ UNCHANGED outsidePure

InitTrends ==
    /\ retries = DefaultRetries
    /\ llm = DefaultLlm
    /\ OrchIdle
    /\ AgentIdle
    /\ SourcesIdle
    /\ CacheIdle
    /\ fn = "none"
    /\ fnArgs \in [given : {TRUE}, data : TrendInputs, sourceType : {"usage_metrics"}]
    /\ fnResult = [called |-> FALSE]

NextTrends == ExtractTrendsCalled

SpecTrends == InitTrends /\ [][NextTrends]_vars

-----------------------------------------------------------------------------
(* The synthesis step on its own: orchestrate from the moment its three     *)
(* runWithRetry calls have settled on their first attempt, under every      *)
(* LLM configuration                                                        *)

\* what the first attempt of collector c resolved with
FirstAttemptResults(c) ==
    {[status |-> "fulfilled",
      value |-> RunCollector(c, env.items, DefaultMaxResults(c), env.fault, 1).value] :
        env \in {e \in Envs(c) :
                    RunCollector(c, e.items, DefaultMaxResults(c), e.fault, 1).settle
                        = "resolved"}}

InitSynth ==
    /\ retries = DefaultRetries
    /\ llm \in LlmConfigs
    /\ topic = <<" ", "a">>
    /\ caller = "direct"
    /\ pc = "agents"
    /\ rw = [c \in Collectors |-> "fulfilled"]
    /\ attempt = [c \in Collectors |-> 1]
    /\ pending = [c \in Collectors |-> {}]
    /\ lastError = [c \in Collectors |-> <<>>]
    /\ settled \in [Collectors -> UNION {FirstAttemptResults(c) : c \in Collectors}]
    /\ \A c \in Collectors : settled[c] \in FirstAttemptResults(c)
    /\ invoked = [c \in Collectors |-> 1]
    /\ work = [joined |-> FALSE]
    /\ report = [returned |-> FALSE]
    /\ waited = [c \in Collectors |-> <<>>]
    /\ settleOrder = <<>>
    /\ AgentIdle
    /\ SourcesIdle
    /\ CacheIdle
    /\ PureIdle

NextSynth ==
    \/ Join
    \/ \E outcome \in LlmOutcomes : SynthesizeInsights(outcome)
    \/ GenerateOutputs
    \/ GenerateOutputsFails

SpecSynth == InitSynth /\ [][NextSynth]_vars

-----------------------------------------------------------------------------
(* gatherSignals with its sub-sources completing in any order.  Each promise  *)
(* settles into its own index of the array given to Promise.allSettled, and  *)
(* each parseURL into its own index of the array given to Promise.all.       *)

VideoRecent == [text |-> VideoShortText, age |-> 1]
FeedItemRecent == [text |-> FeedItemShortText, age |-> 1]

NewsArrivals == {ProviderFails, [ok |-> TRUE, items |-> <<ArticleOnTopic>>]}
YouTubeArrivals == {ProviderFails, [ok |-> TRUE, items |-> <<VideoRecent>>]}
FeedArrivals ==
    {ProviderFails, [ok |-> TRUE, items |-> <<FeedItemRecent, FeedItemOffTopic>>],
     [ok |-> TRUE, items |-> <<FeedItemShort>>]}

\* a promise that has not settled
Unsettled == [status |-> "pending"]

\* the values in the order their promises settled
ByArrival(values, order) == [i \in 1..Len(order) |-> values[order[i]]]
\* Promise.all and Promise.allSettled: the values in the order of the input
\* array, whatever order the promises settled in
ByIndex(values, order) == values

\* gatherSignals(topic) with both keys and every feed configured starts its
\* three sub-sources
GatherSignalsStarts ==
    /\ sPc = "idle"
    /\ sKind' = "external"
    /\ sCfg' = [configured |-> TRUE, topic |-> CheckoutFlow, productArea |-> <<>>,
                newsApiKey |-> TRUE, youtubeApiKey |-> TRUE,
                rssSources |-> MaxFeeds, maxResults |-> ExternalDefaultMaxResults]
    /\ sEnv' = [feeds |-> [k \in 1..MaxFeeds |-> Unsettled], feedOrder |-> <<>>,
                order |-> <<>>]
    /\ sSources' = [i \in 1..3 |-> Unsettled]
    /\ sPc' = "settling"
    /\ UNCHANGED sResult
    /\ UNCHANGED outsideSources

\* the promise of gatherNewsSignals settles
NewsArrives(outcome) ==
    /\ sPc = "settling"
    /\ sSources[1] = Unsettled
    /\ sSources' = [sSources EXCEPT ![1] = GatherNewsSignals(sCfg, outcome)]
    /\ sEnv' = Spread(Spread(sEnv, "news", outcome), "order", Append(sEnv.order, 1))
    /\ UNCHANGED <<sPc, sKind, sCfg, sResult>>
    /\ UNCHANGED outsideSources

\* the promise of gatherYouTubeSignals settles
YouTubeArrives(outcome) ==
    /\ sPc = "settling"
    /\ sSources[2] = Unsettled
    /\ sSources' = [sSources EXCEPT ![2] = GatherYouTubeSignals(sCfg, outcome)]
    /\ sEnv' = Spread(Spread(sEnv, "youtube", outcome), "order", Append(sEnv.order, 2))
    /\ UNCHANGED <<sPc, sKind, sCfg, sResult>>
    /\ UNCHANGED outsideSources

\* parseURL of feed k settles
FeedParsed(k, outcome) ==
    /\ sPc = "settling"
    /\ k \in 1..sCfg.rssSources
    /\ sEnv.feeds[k] = Unsettled
    /\ sEnv' = Spread(Spread(sEnv, "feeds", [sEnv.feeds EXCEPT ![k] = outcome]),
                      "feedOrder", Append(sEnv.feedOrder, k))
    /\ UNCHANGED <<sPc, sKind, sCfg, sSources, sResult>>
    /\ UNCHANGED outsideSources

\* await Promise.all(feedPromises) resumes and gatherRSSSignals settles
RssArrives ==
    /\ sPc = "settling"
    /\ sSources[3] = Unsettled
    /\ \A k \in 1..sCfg.rssSources : sEnv.feeds[k] # Unsettled
    /\ sSources' = [sSources EXCEPT ![3] =
                       GatherRSSSignals(sCfg, ByIndex(sEnv.feeds, sEnv.feedOrder))]
    /\ sEnv' = Spread(sEnv, "order", Append(sEnv.order, 3))
    /\ UNCHANGED <<sPc, sKind, sCfg, sResult>>
    /\ UNCHANGED outsideSources

\* await Promise.allSettled(sourcePromises) resumes; the rest of the try block
AllSettledResumes ==
    /\ sPc = "settling"
    /\ \A i \in 1..3 : sSources[i] # Unsettled
    /\ LET sources == ByIndex(sSources, sEnv.order)
       IN  /\ sSources' = sources
           /\ sResult' = GatherSignalsResult(sources, sCfg.maxResults)
    /\ sPc' = "returned"
    /\ UNCHANGED <<sKind, sCfg, sEnv>>
    /\ UNCHANGED outsideSources

NextArrival ==
    \/ GatherSignalsStarts
    \/ \E outcome \in NewsArrivals : NewsArrives(outcome)
    \/ \E outcome \in YouTubeArrivals : YouTubeArrives(outcome)
    \/ \E k \in 1..MaxFeeds : \E outcome \in FeedArrivals : FeedParsed(k, outcome)
    \/ RssArrives
    \/ AllSettledResumes

SpecArrival == InitSources /\ [][NextArrival]_vars

-----------------------------------------------------------------------------
(* The join on its own: orchestrate from the moment its three runWithRetry  *)
(* calls are pending, each settling once, in any order                      *)

\* what the runWithRetry call of collector c can settle with: a collector
\* result, or the error thrown after the last attempt timed out
RunWithRetryOutcomes(c) ==
    FirstAttemptResults(c)
        \cup {[status |-> "rejected",
               reason |-> RunWithRetryThrow(c, DefaultRetries, TimeoutMessage)]}

InitJoin ==
    /\ retries = DefaultRetries
    /\ llm = DefaultLlm
    /\ topic = <<" ", "a">>
    /\ caller = "direct"
    /\ pc = "agents"
    /\ rw = [c \in Collectors |-> "racing"]
    /\ attempt = [c \in Collectors |-> 1]
    /\ pending = [c \in Collectors |-> {}]
    /\ lastError = [c \in Collectors |-> <<>>]
    /\ settled = [c \in Collectors |-> [status |-> "pending"]]
    /\ invoked = [c \in Collectors |-> 1]
    /\ work = [joined |-> FALSE]
    /\ report = [returned |-> FALSE]
    /\ waited = [c \in Collectors |-> <<>>]
    /\ settleOrder = <<>>
    /\ AgentIdle
    /\ SourcesIdle
    /\ CacheIdle
    /\ PureIdle

\* the promise of this.runWithRetry(c, ...) settles
RunWithRetrySettles(c, outcome) ==
    /\ pc = "agents"
    /\ settled[c].status = "pending"
    /\ outcome \in RunWithRetryOutcomes(c)
    /\ settled' = [settled EXCEPT ![c] = outcome]
    /\ rw' = [rw EXCEPT ![c] = outcome.status]
    /\ settleOrder' = Append(settleOrder, c)
    /\ UNCHANGED <<retries, topic, caller, pc, attempt, pending, lastError, invoked,
                   work, report, waited, llm>>
    /\ UNCHANGED <<agentVars, sourceVars, pureVars, cacheVars>>

NextJoin ==
    \/ \E c \in Collectors :
           \E outcome \in UNION {RunWithRetryOutcomes(d) : d \in Collectors} :
               RunWithRetrySettles(c, outcome)
    \/ Join
    \/ \E outcome \in LlmOutcomes : SynthesizeInsights(outcome)
    \/ GenerateOutputs
    \/ GenerateOutputsFails

SpecJoin == InitJoin /\ [][NextJoin]_vars

-----------------------------------------------------------------------------
(* InternalResearchAgent.extractFileContent and its contentCache.  The agent *)
(* is one object for all attempts, so the calls of a timed-out attempt and   *)
(* of its retry meet the same cache; the function has no await, so a call is *)
(* one step.  A file's content is a function of its path and modification   *)
(* time, and a write moves the modification time forward.                   *)

\* modification times explored
MaxVersions == 2

ResearchPaths == {"notes.md", "call.vtt"}

\* what readFileSync returns for the version of path written at mtime
FileContent(path, mtime) == <<"content of", path, "at", mtime>>

\* parseMarkdown, parseVTT, ...: the extracted text and its metadata
ParseFile(path, rawContent) ==
    [text |-> rawContent, metadata |-> [filePath |-> path]]

\* a key made of the path alone
CacheKeyOfPath(path, mtime) == <<path, ":">>
\* const cacheKey = `${filePath}:${fs.statSync(filePath).mtime.getTime()}`
CacheKey(path, mtime) == <<path, ":", mtime>>

\* this.contentCache.set(cacheKey, result)
MapSet(map, key, value) ==
    [k \in DOMAIN map \cup {key} |-> IF k = key THEN value ELSE map[k]]

\* another process writes the file
FileWritten(path) ==
    /\ path \in ResearchPaths
    /\ IF path \in DOMAIN fileSystem
       THEN /\ fileSystem[path] < MaxVersions
            /\ fileSystem' = [fileSystem EXCEPT ![path] = @ + 1]
       ELSE fileSystem' = MapSet(fileSystem, path, 1)
    /\ UNCHANGED <<contentCache, extraction>>
    /\ UNCHANGED outsideCache

\* extractFileContent(path) of a file that is not there: statSync throws
ExtractMissingFile(path) ==
    /\ path \in ResearchPaths \ DOMAIN fileSystem
    /\ extraction' = [called |-> TRUE, path |-> path, threw |-> TRUE]
    /\ UNCHANGED <<contentCache, fileSystem>>
    /\ UNCHANGED outsideCache

\* extractFileContent(path): readAt is the modification time of the version
\* readFileSync meets (the file may be written between statSync and
\* readFileSync), and readable whether readFileSync returns
ExtractFileContent(path, readAt, readable) ==
    /\ path \in DOMAIN fileSystem
    /\ LET mtime == fileSystem[path]
           cacheKey == CacheKey(path, mtime)
           result == ParseFile(path, FileContent(path, readAt))
       IN  IF cacheKey \in DOMAIN contentCache
           THEN /\ readAt = mtime
                /\ readable
                /\ extraction' = [called |-> TRUE, path |-> path, threw |-> FALSE,
                                  mtime |-> mtime, key |-> cacheKey, hit |-> TRUE,
                                  value |-> contentCache[cacheKey]]
                /\ UNCHANGED <<contentCache, fileSystem>>
           ELSE /\ readAt \in mtime..MaxVersions
                /\ fileSystem' = [fileSystem EXCEPT ![path] = readAt]
                /\ IF readable
                   THEN /\ contentCache' = MapSet(contentCache, cacheKey, result)
                        /\ extraction' = [called |-> TRUE, path |-> path, threw |-> FALSE,
                                          mtime |-> mtime, key |-> cacheKey, hit |-> FALSE,
                                          value |-> result]
                   ELSE /\ extraction' = [called |-> TRUE, path |-> path, threw |-> TRUE]
                        /\ UNCHANGED contentCache
    /\ UNCHANGED outsideCache

NextCache ==
    \/ \E path \in ResearchPaths : FileWritten(path)
    \/ \E path \in ResearchPaths : ExtractMissingFile(path)
    \/ \E path \in ResearchPaths : \E readAt \in 1..MaxVersions : \E readable \in BOOLEAN :
           ExtractFileContent(path, readAt, readable)

SpecCache == InitSources /\ [][NextCache]_vars

-----------------------------------------------------------------------------
(* Properties *)

\* orchestrate returned the report shape (signals and metadata)
IsReport == pc = "done" /\ Has(report, "signals")

\* orchestrate returned, in either of its two shapes
OrchestrateReturned == pc = "done" /\ Has(report, "success")

\* the item count a collector result carries under its own property name
ItemCount(c, r) == OrZero(r, CountField(c))

RECURSIVE SumOver(_, _)
SumOver(S, f) ==
    IF S = {} THEN 0
    ELSE LET c == CHOOSE x \in S : TRUE IN f[c] + SumOver(S \ {c}, f)

SuccessSlots == {c \in Collectors : report.signals[c].status = "success"}

\* C1: in every returned report, metadata.totalSignals is the sum of the item
\* counts (signalCount, findingCount, dataPointCount) of exactly the collectors
\* whose slot has status 'success'.
C1_TotalSignalsSumsSuccessfulCollectors ==
    IsReport =>
        report.metadata.totalSignals =
            SumOver(SuccessSlots, [c \in Collectors |-> ItemCount(c, report.signals[c])])

\* C2: in every returned report, metadata.successfulAgents is the number of
\* slots with status 'success', and agentStatus[c] is true exactly for them.
C2_SuccessfulAgentsCountsSuccessStatus ==
    IsReport =>
        /\ report.metadata.successfulAgents = Cardinality(SuccessSlots)
        /\ \A c \in Collectors :
               report.metadata.agentStatus[c] <=> (report.signals[c].status = "success")

\* C3: runWithRetry invokes a collector at most config.retries times, and when
\* every attempt failed the collector's slot is 'failed', counts 0 items and
\* carries the message of the last failed attempt.
C3_RetriesBoundAttemptsAndExhaustionFails ==
    \A c \in Collectors :
        /\ invoked[c] <= retries
        /\ attempt[c] <= retries
        /\ (rw[c] = "rejected" /\ invoked[c] >= 1) =>
               /\ invoked[c] = retries
               /\ lastError[c] # <<>>
               /\ settled[c].reason = ExhaustedMessage(c, retries, lastError[c])
        /\ (IsReport /\ rw[c] = "rejected" /\ invoked[c] >= 1) =>
               /\ report.signals[c].status = "failed"
               /\ ItemCount(c, report.signals[c]) = 0
               /\ OrZero(report.signals[c], "signalCount") = 0
               /\ report.signals[c].error = ExhaustedMessage(c, retries, lastError[c])

C3_Witness ==
    /\ IsReport
    /\ retries = DefaultRetries
    /\ \E c \in Collectors :
           /\ rw[c] = "rejected"
           /\ invoked[c] = DefaultRetries
           /\ report.signals[c].error = ExhaustedMessage(c, DefaultRetries, TimeoutMessage)

\* orchestrate is past its await of the three runWithRetry calls
PastJoin ==
    \/ pc \in {"synth", "outputs"}
    \/ /\ OrchestrateReturned
       /\ (report.success \/ report.error # MkdirMessage)

\* C4: synthesis and output generation begin only after all three collectors
\* have settled (a result, or retries exhausted), and each collector that
\* delivered a result has exactly that result in its slot, whatever the others
\* did and in whatever order they settled.
C4_SettleAllJoin ==
    /\ PastJoin => \A c \in Collectors : /\ rw[c] \in {"fulfilled", "rejected"}
                                         /\ settled[c].status # "pending"
    /\ work.joined =>
           \A c \in Collectors :
               rw[c] = "fulfilled" => work.signals[c] = settled[c].value
    /\ IsReport =>
           \A c \in Collectors :
               rw[c] = "fulfilled" => report.signals[c] = settled[c].value

C4_Witness ==
    /\ IsReport
    /\ \E c \in Collectors, d \in Collectors :
           /\ rw[c] = "rejected"
           /\ invoked[c] >= 1
           /\ rw[d] = "fulfilled"
           /\ report.signals[d].status = "success"
           /\ ItemCount(d, report.signals[d]) > 0

\* C5: orchestrate always returns; whatever subset of collectors failed, the
\* report has success = true, the three slots and the metadata; the shape
\* {success: false, error} comes only from a failure of the output directory
\* setup or of writing the outputs.
C5_CollectorFailuresNeverFailOrchestrate ==
    /\ (pc = "done") => report.returned
    /\ OrchestrateReturned =>
           IF report.success
           THEN /\ DOMAIN report.signals = Collectors
                /\ Has(report, "metadata")
                /\ \A c \in Collectors : Has(report.signals[c], "status")
           ELSE report.error \in {MkdirMessage, WriteFileMessage}

C5_Witness ==
    /\ OrchestrateReturned
    /\ report.success
    /\ \A c \in Collectors : report.signals[c].status = "failed"
    /\ \E c \in Collectors : rw[c] = "rejected" /\ invoked[c] >= 1
    /\ \E c \in Collectors : rw[c] = "fulfilled"

\* C6: when the topic orchestrate received is empty after trimming, no
\* collector is invoked, whoever the caller is.
C6_BlankTopicInvokesNoCollector ==
    (pc # "idle" /\ Len(Trim(topic)) = 0) => \A c \in Collectors : invoked[c] = 0

\* C7: a timed-out attempt counts as failed and what its call delivers later
\* is discarded: a collector's settled value is always the result of the one
\* attempt that completed before its own timeout.
C7_LateResultsAreDiscarded ==
    \A c \in Collectors :
        /\ settled[c].status = "fulfilled" =>
               /\ rw[c] = "fulfilled"
               /\ settled[c].value.by = attempt[c]
               /\ attempt[c] \notin pending[c]
        /\ \A k \in pending[c] :
               \/ k < attempt[c]
               \/ k = attempt[c] /\ rw[c] \in {"backoff", "rejected"}
        /\ (IsReport /\ rw[c] = "fulfilled") => report.signals[c].by = attempt[c]

C7_Witness ==
    /\ IsReport
    /\ \E c \in Collectors :
           /\ rw[c] = "fulfilled"
           /\ attempt[c] = 2
           /\ lastError[c] = TimeoutMessage
           /\ pending[c] = {}
           /\ report.signals[c].by = 2
           /\ report.signals[c].status = "success"

-----------------------------------------------------------------------------
(* Properties of one collector call *)

CollectorValue == aOutcome.value

RankedList == CollectorValue[RankedField(aKind)]

RankingCollector == aKind \in {"external", "internal"}

CollectorSucceeded ==
    /\ aPc = "returned"
    /\ aOutcome.settle = "resolved"
    /\ CollectorValue.status = "success"

\* C8: every collector call resolves to a result object; a fault inside the
\* call gives status 'failed', the fault's message, an item count of 0 and no
\* ranked list, and never a rejection.
C8_CollectorsResolveOnFault ==
    aPc = "returned" =>
        /\ aOutcome.settle = "resolved"
        /\ Has(CollectorValue, "status")
        /\ aFault # NoFault =>
               /\ CollectorValue.status = "failed"
               /\ CollectorValue.error = aFault
               /\ Has(CollectorValue, CountField(aKind))
               /\ ItemCount(aKind, CollectorValue) = 0
               /\ ~Has(CollectorValue, "rankedSignals")
               /\ ~Has(CollectorValue, "rankedFindings")
        /\ aFault = NoFault => CollectorValue.status = "success"

C8_Witness ==
    /\ aPc = "returned"
    /\ aKind = "internal"
    /\ aFault = CollectorFault
    /\ Len(aItems) > 0
    /\ aOutcome.settle = "resolved"
    /\ CollectorValue.status = "failed"

\* C9: the ranked list of every successful External or Internal result is
\* sorted by non-increasing combinedScore.
C9_RankedListIsSortedDescending ==
    (CollectorSucceeded /\ RankingCollector) =>
        \A i \in 1..Len(RankedList), j \in 1..Len(RankedList) :
            i < j => RankedList[i].combinedScore >= RankedList[j].combinedScore

C9_Witness ==
    /\ CollectorSucceeded
    /\ aKind = "external"
    /\ Len(RankedList) >= 2
    /\ Len(aItems) >= 2
    /\ CalculateCombinedScore(aItems[1]) < CalculateCombinedScore(aItems[2])
    /\ RankedList[1].combinedScore > RankedList[2].combinedScore

\* C10: the ranked list of an External or Internal result never holds more
\* than the collector's configured maxResults items.
C10_RankedListWithinMaxResults ==
    (CollectorSucceeded /\ RankingCollector) => Len(RankedList) <= aMax

C10_Witness ==
    /\ CollectorSucceeded
    /\ aKind = "external"
    /\ aMax >= 1
    /\ Len(aItems) > aMax
    /\ Len(RankedList) = aMax

-----------------------------------------------------------------------------
(* Properties of one collector call seen sub-source by sub-source *)

\* C29: in every successful External or Internal result the reported item
\* count (signalCount, findingCount) equals the length of the returned ranked
\* list, also when more items than maxResults were produced.
C29_CountEqualsRankedListLength ==
    (CollectorSucceeded /\ RankingCollector) =>
        ItemCount(aKind, CollectorValue) = Len(RankedList)

\* the items a successful collector result carries
ResultSignals ==
    IF aKind = "product" THEN CollectorValue.dataSources ELSE RankedList

\* the recency step of an age in days, in hundredths
RecencyStep(age) ==
    IF age = AbsentDate THEN 0
    ELSE IF age <= 1 THEN 100 ELSE IF age <= 7 THEN 80 ELSE IF age <= 30 THEN 60 ELSE 30

\* C25: every item of a successful collector result has a combinedScore
\* between 0 and 1; that of an External signal is 0.7 * relevanceScore
\* + 0.3 * recencyScore (in thousandths: 7 * hundredths + 3 * hundredths), the
\* recency score stepping 1.0 / 0.8 / 0.6 / 0.3 at 1, 7 and 30 days and being 0
\* without a date; that of an Internal finding is at most 1.0 (100 hundredths).
C25_CombinedScoreIsWeightedAndBounded ==
    CollectorSucceeded =>
        \A i \in 1..Len(ResultSignals) :
            LET x == ResultSignals[i]
            IN  /\ Has(x, "combinedScore")
                /\ aKind = "external" =>
                       /\ x.combinedScore = 7 * x.relevanceScore + 3 * RecencyStep(x.age)
                       /\ x.combinedScore \in 0..1000
                /\ aKind # "external" => x.combinedScore \in 0..100

\* the call returned its result
SourcesReturned == sPc = "returned"

When(b, e) == IF b THEN {e} ELSE {}

\* the sub-sources the call used, as <<name, index>>
SubSources ==
    IF sKind = "external"
    THEN {<<"news", 0>>, <<"youtube", 0>>} \cup {<<"rss", k>> : k \in 1..sCfg.rssSources}
    ELSE IF sKind = "product"
    THEN {<<Categories[k], 0>> : k \in 1..Len(Categories)}
         \cup {<<"custom", k>> : k \in 1..sCfg.customEndpoints}
         \cup When(sCfg.amplitudeKeys, <<"amplitude", 0>>)
    ELSE {}

\* the sub-sources whose provider (or generator) failed during the call
FailedSubSources ==
    IF sKind = "external"
    THEN When(sEnv.news.called /\ ~sEnv.news.ok, <<"news", 0>>)
         \cup When(sEnv.youtube.called /\ ~sEnv.youtube.ok, <<"youtube", 0>>)
         \cup {<<"rss", k>> : k \in {j \in 1..Len(sEnv.rss) : ~sEnv.rss[j].ok}}
    ELSE IF sKind = "product"
    THEN {<<Categories[k], 0>> : k \in {j \in 1..Len(Categories) : ~sEnv[Categories[j]].ok}}
         \cup (IF Has(sEnv, "custom")
               THEN {<<"custom", k>> : k \in {j \in 1..Len(sEnv.custom) : ~sEnv.custom[j].ok}}
               ELSE {})
         \cup When(Has(sEnv, "amplitude") /\ ~sEnv.amplitude.ok, <<"amplitude", 0>>)
    ELSE {}

\* the data sources of the result that have the given type
SourcesOfType(type) == SelectSeq(sResult.dataSources, LAMBDA d : d.type = type)

\* the items of sub-source s in the returned result
Contribution(s) ==
    IF sKind = "external"
    THEN LET all == AllSignals(sResult.sources) IN
         IF s[1] = "news" THEN Len(SelectSeq(all, LAMBDA x : x.type = "news_article"))
         ELSE IF s[1] = "youtube"
         THEN Len(SelectSeq(all, LAMBDA x : x.type = "youtube_video"))
         ELSE Len(SelectSeq(all, LAMBDA x :
                      x.type = "rss_article" /\ x.metadata.feedUrl = s[2]))
    ELSE IF s[1] = "custom"
    THEN LET custom == SourcesOfType("custom_metrics") IN
         IF custom # <<>> /\ \E i \in 1..Len(custom[1].data) : custom[1].data[i] = s[2]
         THEN 1 ELSE 0
    ELSE LET own == SourcesOfType(IF s[1] = "amplitude" THEN "amplitude_metrics" ELSE s[1])
         IN  SumSeq([i \in 1..Len(own) |->
                        IF own[i].status = "success" THEN own[i].dataPoints ELSE 0])

\* what sub-source s gives when its provider answers (or, without a key, when
\* its generator stands in)
ExpectedItems(s) ==
    IF s[1] = "news"
    THEN IF sEnv.news.called THEN Len(sEnv.news.items)
         ELSE Len(GenerateSimulatedNewsData(sCfg.topic).signals)
    ELSE IF s[1] = "youtube"
    THEN IF sEnv.youtube.called THEN Len(sEnv.youtube.items)
         ELSE Len(GenerateSimulatedYouTubeData(sCfg.topic).signals)
    ELSE IF s[1] = "rss"
    THEN Len(SelectSeq(sEnv.rss[s[2]].items,
                       LAMBDA item : FeedItemMentions(item, sCfg.topic, sCfg.productArea)))
    ELSE IF s[1] = "custom" THEN 1
    ELSE IF s[1] = "amplitude" THEN sEnv.amplitude.rows
    ELSE SimulatedDataPoints(sCfg.topic)

\* what a failed sub-source gives: nothing, except that a failed news search and
\* a failed Amplitude query are replaced by their generators' data
FallbackItems(s) ==
    IF s[1] = "news" THEN Len(GenerateSimulatedNewsData(sCfg.topic).signals)
    ELSE IF s[1] = "amplitude" THEN AmplitudeEvents * SimulatedDays
    ELSE 0

\* the count the result reports
ReportedCount ==
    IF sKind = "external" THEN sResult.signalCount ELSE sResult.dataPointCount

ExactlyOneSubSourceFailed ==
    /\ SourcesReturned
    /\ sKind \in {"external", "product"}
    /\ Cardinality(FailedSubSources) = 1

ResultItems ==
    IF sKind = "external" THEN sResult.rankedSignals
    ELSE IF sKind = "product" THEN sResult.dataSources
    ELSE sResult.rankedFindings

\* the items of a list that a synthetic generator made
SyntheticItems(items) ==
    SelectSeq(items, LAMBDA x : Has(x, "origin") /\ x.origin = "generator")

\* a sub-source result that is the output of its generator
SourceIsSynthetic(source) ==
    /\ source.status = "success"
    /\ source.signals # <<>>
    /\ SyntheticItems(source.signals) = source.signals

\* the call was made with no provider credentials
NoCredentials ==
    /\ SourcesReturned
    /\ sKind = "external" => ~sCfg.newsApiKey /\ ~sCfg.youtubeApiKey
    /\ sKind = "product" => ~sCfg.amplitudeKeys

\* every generator of the Product call threw
AllGeneratorsFailed ==
    /\ sKind = "product"
    /\ \A k \in 1..Len(Categories) : ~sEnv[Categories[k]].ok

ProducedItems ==
    IF sKind = "external" THEN AllSignals(sResult.sources)
    ELSE IF sKind = "product"
    THEN SelectSeq(sResult.dataSources, LAMBDA d : d.status = "success")
    ELSE sResult.rankedFindings

\* metadata.simulated === true
MarkedSimulated(x) ==
    /\ Has(x, "metadata")
    /\ Has(x.metadata, "simulated")
    /\ x.metadata.simulated

\* made by one of the generateSimulated...Data methods
MadeByGenerator(x) == Has(x, "origin") /\ x.origin = "generator"

\* C13: in every returned result, an item or data source carries the
\* simulated marker in its metadata exactly if a synthetic generator made it.
C13_SimulatedDataIsMarked ==
    SourcesReturned =>
        \A i \in 1..Len(ProducedItems) :
            MadeByGenerator(ProducedItems[i]) <=> MarkedSimulated(ProducedItems[i])

\* a scorer was called and answered
ScorerCalled == fn \in {"calculateRelevance", "calculateContentRelevance"}

\* C14: whatever the content, the topic and the focus, a scorer call returns
\* a score between 0 and 1 (0 and 100 hundredths) and does not throw.
C14_ScorersReturnUnitIntervalAndNeverThrow ==
    ScorerCalled =>
        /\ ~fnResult.threw
        /\ fnResult.value \in 0..100

\* the discovered file a finding was made of
FileOf(finding) == CHOOSE i \in 1..Len(sSources) : sSources[i].fileName = finding.source

\* the text mentions the topic or the focus
MentionsTopic(text) ==
    \/ Includes(ToLowerCase(text), ToLowerCase(sCfg.topic))
    \/ sCfg.productArea # <<>> /\ Includes(ToLowerCase(text), ToLowerCase(sCfg.productArea))

\* the signals of the result that were built of provider items
ProviderItems == SelectSeq(sResult.rankedSignals, LAMBDA x : x.origin = "provider")

\* C15: every finding of an Internal result was made of a document whose
\* whole text passes isRelevantContent, and every provider item in an External
\* result's ranked list mentions the topic or the focus and is at least 50
\* characters long.
C15_EmittedItemsPassedThePrefilter ==
    SourcesReturned =>
        /\ sKind = "internal" =>
               \A i \in 1..Len(sResult.rankedFindings) :
                   IsRelevantContent(sSources[FileOf(sResult.rankedFindings[i])].text,
                                     sCfg.topic, sCfg.productArea)
        /\ sKind = "external" =>
               \A i \in 1..Len(ProviderItems) :
                   /\ MentionsTopic(ProviderItems[i].text)
                   /\ Len(ProviderItems[i].text) >= 50

\* the Internal collector was run on a directory holding the one file of
\* scenario C
ScenarioCRan ==
    /\ SourcesReturned
    /\ sKind = "internal"
    /\ sSources = <<ScenarioCFile>>

\* C16: run with topic "checkout flow" on the one markdown file of scenario
\* C, the Internal collector returns exactly one finding, whose content
\* contains "checkout flow" and whose relevanceScore is positive.
C16_ScenarioCGivesOneFinding ==
    ScenarioCRan =>
        /\ sResult.findingCount = 1
        /\ Len(sResult.rankedFindings) = 1
        /\ Includes(ToLowerCase(sResult.rankedFindings[1].content), CheckoutFlow)
        /\ sResult.rankedFindings[1].relevanceScore > 0

\* the Internal collector found no file
NoFilesDiscovered ==
    /\ SourcesReturned
    /\ sKind = "internal"
    /\ Len(sSources) = 0

\* C17: an Internal call that discovers no file, whether its directories
\* exist or not, returns status 'success' with findingCount 0, an empty
\* ranked list and the explanatory message.
C17_NoFilesIsAnEmptySuccess ==
    NoFilesDiscovered =>
        /\ sResult.status = "success"
        /\ sResult.findingCount = 0
        /\ sResult.rankedFindings = <<>>
        /\ Has(sResult, "message")
        /\ sResult.message = NoFilesMessage

\* every configured directory is missing and the call has returned
C17_Witness ==
    /\ NoFilesDiscovered
    /\ ~sEnv.directoriesExist
    /\ sResult.status = "success"

-----------------------------------------------------------------------------
(* Properties of extractTrends *)

TrendsExtracted == fn = "extractTrends"

\* the points of one metric in the data given, and whether their dates differ
PointsOf(metric) == MetricGroup(fnArgs.data, metric)
DatesDiffer(points) ==
    \A i, j \in 1..Len(points) : i # j => points[i].date # points[j].date

\* the values at the earliest and at the latest date of a group
EarliestValue(points) ==
    points[CHOOSE i \in 1..Len(points) :
               \A j \in 1..Len(points) : points[i].date <= points[j].date].value
LatestValue(points) ==
    points[CHOOSE i \in 1..Len(points) :
               \A j \in 1..Len(points) : points[i].date >= points[j].date].value

\* one trend per metric that has more than one point, none for the others
OneTrendPerSeries ==
    /\ \A i \in 1..Len(fnResult.value) :
           /\ Len(PointsOf(fnResult.value[i].metric)) > 1
           /\ fnResult.value[i].dataPoints = Len(PointsOf(fnResult.value[i].metric))
           /\ \A j \in 1..Len(fnResult.value) :
                  i # j => fnResult.value[i].metric # fnResult.value[j].metric
    /\ \A i \in 1..Len(fnArgs.data) :
           Len(PointsOf(fnArgs.data[i].metric)) > 1 =>
               \E j \in 1..Len(fnResult.value) :
                   fnResult.value[j].metric = fnArgs.data[i].metric

AbsoluteValue(n) == IF n < 0 THEN 0 - n ELSE n

-----------------------------------------------------------------------------
(* Properties of the synthesis step *)

\* the collector's slot has status 'success' and at least one item under the
\* collector's own count (signalCount, findingCount, dataPointCount)
SucceededWithItems(c) ==
    /\ report.signals[c].status = "success"
    /\ ItemCount(c, report.signals[c]) > 0

\* the types of the opportunities in the report
OpportunityTypes ==
    {report.insights.crossReferenceInsights[i].type :
        i \in 1..Len(report.insights.crossReferenceInsights)}

\* C19: in every report the cross-reference opportunities are determined by
\* which collectors succeeded with at least one item: multi_source_validation
\* iff all three did, market_research_alignment iff external and internal did,
\* metrics_research_validation iff internal and product did.
C19_OpportunitiesFollowTheThreeBooleans ==
    IsReport =>
        /\ "multi_source_validation" \in OpportunityTypes <=>
               \A c \in Collectors : SucceededWithItems(c)
        /\ "market_research_alignment" \in OpportunityTypes <=>
               SucceededWithItems("external") /\ SucceededWithItems("internal")
        /\ "metrics_research_validation" \in OpportunityTypes <=>
               SucceededWithItems("internal") /\ SucceededWithItems("product")

\* synthesizeInsights has returned
SynthesisReturned == Has(work, "insights")

\* the LLM call was made and failed
LlmCallFailed ==
    /\ SynthesisReturned
    /\ work.insights.llmCalled
    /\ Has(work.insights.llmSynthesis, "error")

\* C20: without a client or with synthesis disabled no LLM call is made and
\* llmSynthesis is null; when the call is made and fails, synthesizeInsights
\* returns with the failure reason in llmSynthesis and the enriched prompt in
\* llmPrompts.primarySynthesis, and orchestrate returns success = true with
\* those insights unless writing the output files fails.
C20_SynthesisNeverBlocksTheReport ==
    SynthesisReturned =>
        /\ ~(llm.enabled /\ llm.client) =>
               /\ ~work.insights.llmCalled
               /\ work.insights.llmSynthesis = NullSynthesis
        /\ LlmCallFailed =>
               /\ work.insights.llmSynthesis.error = LlmFailedMessage
               /\ work.insights.llmSynthesis.fallback = FallbackText
               /\ work.insights.llmPrompts.primarySynthesis =
                      EnrichedPrompt(topic, work.signals, work.metadata)
        /\ pc = "done" =>
               IF report.success THEN report.insights = work.insights
               ELSE report.error = WriteFileMessage

\* the LLM call failed and orchestrate returned success = true with the
\* failure reason in the report
C20_Witness ==
    /\ LlmCallFailed
    /\ pc = "done"
    /\ report.success
    /\ report.insights.llmSynthesis.error = LlmFailedMessage

-----------------------------------------------------------------------------
(* Properties of gatherSignals under every completion order *)

ArrivalReturned == sPc = "returned" /\ Has(sEnv, "order")

\* source.signals || []
SignalsOf(source) == IF Has(source, "signals") THEN source.signals ELSE <<>>

\* the items in the order the sub-sources and the feeds are declared, from
\* what each provider answered
DeclaredOrder ==
    SignalsOf(GatherNewsSignals(sCfg, sEnv.news))
        \o SignalsOf(GatherYouTubeSignals(sCfg, sEnv.youtube))
        \o SignalsOf(GatherRSSSignals(sCfg, sEnv.feeds))

Scored(signals) ==
    [i \in 1..Len(signals) |->
        Spread(signals[i], "combinedScore", CalculateCombinedScore(signals[i]))]

WithScore(signals, score) == SelectSeq(signals, LAMBDA x : x.combinedScore = score)

\* C21: whatever order the sub-sources and the feeds complete in, the ranked
\* list is the items of the declared order sorted by descending combinedScore,
\* and the items of each combinedScore stand in their declared order
C21_RankedListIgnoresArrivalOrder ==
    ArrivalReturned =>
        LET declared == DeclaredOrder
            scored == Scored(declared)
            ranked == sResult.rankedSignals
        IN  /\ AllSignals(sSources) = declared
            /\ Len(ranked) = Len(declared)
            /\ \A i \in 1..(Len(ranked) - 1) :
                   ranked[i].combinedScore >= ranked[i + 1].combinedScore
            /\ \A x \in {scored[i].combinedScore : i \in 1..Len(scored)} :
                   WithScore(ranked, x) = WithScore(scored, x)

\* a call whose feeds and sub-sources settled out of declared order, and whose
\* list has items of two sub-sources and of two feeds with one combinedScore
C21_Witness ==
    /\ ArrivalReturned
    /\ \E i, j \in 1..Len(sEnv.order) : i < j /\ sEnv.order[i] > sEnv.order[j]
    /\ \E i, j \in 1..Len(sEnv.feedOrder) : i < j /\ sEnv.feedOrder[i] > sEnv.feedOrder[j]
    /\ \E i, j \in 1..Len(sResult.rankedSignals) :
           /\ i < j
           /\ sResult.rankedSignals[i].combinedScore = sResult.rankedSignals[j].combinedScore
           /\ sResult.rankedSignals[i].type = "news_article"
           /\ sResult.rankedSignals[j].type = "rss_article"
    /\ \E i, j \in 1..Len(sResult.rankedSignals) :
           /\ i < j
           /\ sResult.rankedSignals[i].combinedScore = sResult.rankedSignals[j].combinedScore
           /\ sResult.rankedSignals[i].type = "rss_article"
           /\ sResult.rankedSignals[j].type = "rss_article"
           /\ sResult.rankedSignals[i].metadata # sResult.rankedSignals[j].metadata

-----------------------------------------------------------------------------
(* Properties of the retry loop, the join and the executive summary *)

\* C23: attempt k+1 of a collector starts only out of the backoff that followed
\* the failure of attempt k, a wait of 2^k seconds; the last attempt is followed
\* by no backoff, and once an attempt has succeeded no further attempt starts.
C23_BackoffSeparatesAttempts ==
    /\ [](\A c \in Collectors :
            /\ attempt[c] >= 1 =>
                  waited[c] = [k \in 1..(attempt[c] - 1) |-> 1000 * 2 ^ k]
            /\ rw[c] = "backoff" => attempt[c] < retries /\ lastError[c] # <<>>)
    /\ [][\A c \in Collectors :
            /\ (invoked[c] >= 1 /\ invoked'[c] # invoked[c]) =>
                  /\ rw[c] = "backoff"
                  /\ lastError[c] # <<>>
                  /\ invoked'[c] = invoked[c] + 1
                  /\ attempt'[c] = attempt[c] + 1
                  /\ waited'[c] = Append(waited[c], 1000 * 2 ^ attempt[c])
            /\ rw[c] = "fulfilled" => rw'[c] = "fulfilled" /\ invoked'[c] = invoked[c]]_vars

\* a collector whose first attempt timed out, which waited two seconds, and
\* whose second and last attempt failed too, with no wait after it
C23_Witness ==
    \E c \in Collectors :
        /\ retries = 2
        /\ invoked[c] = 2
        /\ waited[c] = <<2000>>
        /\ rw[c] = "rejected"
        /\ lastError[c] = TimeoutMessage

\* the label of a count against a collector's two thresholds
StrengthOf(count, strong, medium) ==
    IF count > strong THEN "strong" ELSE IF count > medium THEN "medium" ELSE "weak"

\* C26: in every returned report the coverage percentage is
\* round(successfulAgents / 3 * 100) with status 'complete' exactly for three
\* successes, signalReliability is 'High' above 30 total signals, 'Medium'
\* above 15 and 'Low' otherwise, and each collector's strength label is that of
\* its own item count against its thresholds (external 15/5, internal 10/3,
\* product 20/8).
C26_ExecutiveSummaryFollowsTheCounts ==
    IsReport =>
        LET summary == report.insights.executiveSummary
            quality == report.insights.qualityAssessment
            n == report.metadata.successfulAgents
            total == report.metadata.totalSignals
        IN  /\ summary.coverage.percentage = (IF n = 0 THEN 0 ELSE IF n = 1 THEN 33
                                              ELSE IF n = 2 THEN 67 ELSE 100)
            /\ summary.coverage.status = "complete" <=> n = 3
            /\ quality.signalReliability
                 = (IF total > 30 THEN "High" ELSE IF total > 15 THEN "Medium" ELSE "Low")
            /\ summary.signalStrength.external.strength
                 = StrengthOf(ItemCount("external", report.signals.external), 15, 5)
            /\ summary.signalStrength.internal.strength
                 = StrengthOf(ItemCount("internal", report.signals.internal), 10, 3)
            /\ summary.signalStrength.product.strength
                 = StrengthOf(ItemCount("product", report.signals.product), 20, 8)

\* C27: once orchestrate is past its entry it returns to its caller, and every
\* runWithRetry call whose attempt is running or backing off ends fulfilled or
\* rejected, under fair timers and fair completion of orchestrate's own I/O.
C27_OrchestrateTerminates ==
    /\ (pc = "setup") ~> report.returned
    /\ \A c \in Collectors :
           (rw[c] \in {"racing", "backoff"}) ~> (rw[c] \in {"fulfilled", "rejected"})
    /\ [](\A c \in Collectors : invoked[c] <= retries)

\* a returned report of a run in which one collector exhausted its attempts
\* by timeouts and another succeeded on its retry
C27_Witness ==
    /\ IsReport
    /\ \E c \in Collectors :
           /\ rw[c] = "rejected"
           /\ invoked[c] = retries
           /\ waited[c] # <<>>
           /\ lastError[c] = TimeoutMessage
    /\ \E c \in Collectors :
           /\ rw[c] = "fulfilled"
           /\ waited[c] # <<>>
           /\ settled[c].value.by = 2

\* C28: for every accepted retries value (0 included) a report comes from a run
\* that invoked each of the three collectors at least once, and a slot is
\* 'failed' only when at least one attempt of that collector ran and failed.
C28_EveryCollectorIsAttempted ==
    IsReport =>
        \A c \in Collectors :
            /\ invoked[c] >= 1
            /\ report.signals[c].status = "failed" =>
                   /\ invoked[c] >= 1
                   /\ \/ rw[c] = "fulfilled" /\ settled[c].value.status = "failed"
                      \/ rw[c] = "rejected" /\ lastError[c] # <<>>

C22_SlotsFollowCollectorIdentity ==
    IsReport =>
        \A c \in Collectors :
            /\ report.signals[c] = SlotData(settled[c])
            /\ report.metadata.agentStatus[c] = (settled[c].status = "fulfilled")
            /\ settled[c] \in RunWithRetryOutcomes(c)

\* a report whose collectors settled in the reverse of their declared order,
\* with a success, a rejection and a failed result
C22_Witness ==
    /\ IsReport
    /\ settleOrder = <<"product", "internal", "external">>
    /\ report.signals.external.status = "success"
    /\ Has(report.signals.external, "rankedSignals")
    /\ report.signals.internal.status = "failed"
    /\ report.signals.internal.error
           = RunWithRetryThrow("internal", DefaultRetries, TimeoutMessage)
    /\ report.signals.product.status = "failed"
    /\ Has(report.signals.product, "dataPointCount")

-----------------------------------------------------------------------------
(* Properties of the file-content cache *)

CacheHit == extraction.called /\ ~extraction.threw /\ extraction.hit

\* C24: an entry of the content cache is written when its key is absent and
\* is never changed or removed afterwards; a hit returns what parsing the
\* version of the file with the key's modification time gives, so a file whose
\* modification time changed is read again.
C24_CacheIsInsertIfAbsent ==
    /\ [][/\ \A key \in DOMAIN contentCache :
                key \in DOMAIN contentCache' /\ contentCache'[key] = contentCache[key]
          /\ contentCache' # contentCache =>
                /\ extraction'.key \notin DOMAIN contentCache
                /\ DOMAIN contentCache' = DOMAIN contentCache \cup {extraction'.key}]_vars
    /\ [](CacheHit =>
            /\ extraction.key = <<extraction.path, ":", extraction.mtime>>
            /\ extraction.value
                 = ParseFile(extraction.path,
                             FileContent(extraction.path, extraction.mtime)))

\* a hit on the second version of a file whose first version is cached too
C24_Witness ==
    /\ CacheHit
    /\ extraction.mtime = 2
    /\ <<extraction.path, ":", 1>> \in DOMAIN contentCache
    /\ contentCache[<<extraction.path, ":", 1>>] # extraction.value

====
